---- MODULE Spec2Model ----
(***************************************************************************)
(* Model of the AI enhancement engine of DARK-ZiLLA                        *)
(* (core/native/src/analysis/ai/ai_engine.{h,cpp}): configuration, result  *)
(* cache with TTL and eviction, retrying dispatch to the external Python   *)
(* service, metrics, and the detached asynchronous variant; and of the     *)
(* analysis manager (core/native/src/analysis/analysis_manager.{h,cpp}):   *)
(* analyzer lookup, analyzeFile, the serial and the parallel directory     *)
(* scan, and cooperative cancellation.                                     *)
(*                                                                         *)
(* Text (code, language, file path, executable names) is a sequence of     *)
(* one-character strings; NUL stands for the byte '\0'.  Time is in        *)
(* milliseconds of one monotonic clock `now`.                              *)
(***************************************************************************)
EXTENDS Integers, Sequences, FiniteSets, TLC

VARIABLES
    config_,          \* AIEngine::config_
    analysis_cache_,  \* AIEngine::analysis_cache_ : key -> CacheEntry
    metrics_,         \* AIEngine::metrics_
    now,              \* the clock read by system_clock::now / steady_clock::now
    calls,            \* number of public calls made so far (bounds the run)
    ticks,            \* number of clock advances made so far (bounds the run)
    last,             \* record of the most recent public call and what it returned
    threads,          \* the detached threads started by analyzeCodeAsync
    alive,            \* FALSE once std::terminate has ended the process
    analysis_cancelled_,  \* AnalysisManager::analysis_cancelled_
    scan,             \* the running analyzeFile / analyzeDirectory[Parallel] call
    workers,          \* the worker tasks of analyzeDirectoryParallel
    callers,          \* threads inside the engine: position, locks held, locals
    health,           \* AIEngine::service_available_, age of last_health_check_
    disk,             \* the source files: path -> bytes
    fix,              \* record of the most recent applyFix / applyAutoFixes call
    runs              \* the runs of executePythonService and their documents in /tmp

managerVars == <<analysis_cancelled_, scan, workers>>

fixVars == <<disk, fix, runs>>

vars == <<config_, analysis_cache_, metrics_, now, calls, ticks, last, threads, alive,
          analysis_cancelled_, scan, workers, callers, health, disk, fix, runs>>

----------------------------------------------------------------------------
(* Bounds of the model *)

MaxCalls == 3
MaxTicks == 1
MaxAsync == 2
MaxFiles == 3      \* entries of the scanned tree
MaxWorkers == 2    \* max_threads of analyzeDirectoryParallel
MaxSignals == 2    \* calls of cancelAnalysis / resetCancellation
MaxStem == 2       \* characters of a probed path before its extension
MaxOps == 2        \* public calls the concurrent threads make in one run
MaxCallers == 2    \* threads calling into the engine at the same time

----------------------------------------------------------------------------
(* Program constants *)

CACHE_TTL == 3600
MAX_INPUT_SIZE == 1048576
INITIAL_DELAY_MS == 100
INT_MAX == 2147483647

NUL == "NUL"

----------------------------------------------------------------------------
(* AIEngineConfig *)

DefaultConfig ==
    [python_executable |-> <<"p","y">>,
     ai_service_path   |-> <<"s">>,
     model_type        |-> <<"m">>,
     timeout_seconds   |-> 30,
     max_retries       |-> 3,
     enable_caching    |-> TRUE,
     enable_learning   |-> TRUE,
     cache_max_size    |-> 1000]

\* a build that accepts a timeout of 0
validate_zeroTimeout(c) ==
    /\ c.python_executable # <<>>
    /\ c.ai_service_path # <<>>
    /\ c.timeout_seconds >= 0
    /\ c.max_retries >= 0

validate(c) ==
    /\ c.python_executable # <<>>
    /\ c.ai_service_path # <<>>
    /\ c.timeout_seconds > 0
    /\ c.max_retries >= 0

----------------------------------------------------------------------------
(* AIAnalysisResult and CacheEntry *)

DefaultResult ==
    [success          |-> FALSE,
     analysis         |-> "",
     error_message    |-> "",
     confidence_score |-> 0,
     severity_level   |-> 0,
     recommendations  |-> <<>>,
     processing_time  |-> 0,
     from_cache       |-> FALSE]

\* a build that expires an entry already at the TTL
isExpired_atTtl(entry, ttl, t) == (t - entry.timestamp) >= ttl * 1000

\* CacheEntry::isExpired, with `t` for system_clock::now()
isExpired(entry, ttl, t) == (t - entry.timestamp) > ttl * 1000

----------------------------------------------------------------------------
(* The response document of the external service, as nlohmann::json sees  *)
(* it: unparseable text, a JSON value that is not an object, or an object *)
(* whose members carry their JSON type.                                    *)

JBool(b)   == [t |-> "bool",   v |-> b]
JString(s) == [t |-> "string", v |-> s]
JNumber(n) == [t |-> "number", v |-> n]
JArray(a)  == [t |-> "array",  v |-> a]

JsonObject(members) == [kind |-> "object", fields |-> members]
JsonMalformed == [kind |-> "malformed", fields |-> <<>>]
JsonNotObject == [kind |-> "array", fields |-> <<>>]

\* basic_json::value(key, default) throws type_error when the member is
\* present with another type
JsonThrows(doc, key, type) ==
    key \in DOMAIN doc.fields /\ doc.fields[key].t # type

\* basic_json::value(key, default)
JsonValue(doc, key, default) ==
    IF key \in DOMAIN doc.fields THEN doc.fields[key].v ELSE default

\* the loop pushing rec.get<std::string>() : the strings before the first
\* element that is not a string, and whether such an element exists
RecsBad(a) == {i \in 1..Len(a) : a[i].t # "string"}
RecsFirstBad(a) == CHOOSE i \in RecsBad(a) : \A j \in RecsBad(a) : i <= j
RecsPushed(a) ==
    IF RecsBad(a) = {} THEN [i \in 1..Len(a) |-> a[i].v]
    ELSE [i \in 1..(RecsFirstBad(a) - 1) |-> a[i].v]

Thrown(r)   == [threw |-> TRUE,  value |-> r]
Returned(r) == [threw |-> FALSE, value |-> r]

\* the try block of parseServiceResponse, one member after the other: what
\* `result` holds when the block ends, and whether it ended by a
\* json::exception
ParseRecommendations(doc, r) ==
    IF "recommendations" \in DOMAIN doc.fields
       /\ doc.fields["recommendations"].t = "array"
    THEN [threw |-> RecsBad(doc.fields["recommendations"].v) # {},
          value |-> [r EXCEPT !.recommendations =
                                  RecsPushed(doc.fields["recommendations"].v)]]
    ELSE Returned(r)

ParseSeverity(doc, r) ==
    IF JsonThrows(doc, "severity", "number") THEN Thrown(r)
    ELSE ParseRecommendations(doc,
            [r EXCEPT !.severity_level = JsonValue(doc, "severity", 0)])

ParseConfidence(doc, r) ==
    IF JsonThrows(doc, "confidence", "number") THEN Thrown(r)
    ELSE ParseSeverity(doc,
            [r EXCEPT !.confidence_score = JsonValue(doc, "confidence", 0)])

ParseError(doc, r) ==
    IF JsonThrows(doc, "error", "string") THEN Thrown(r)
    ELSE ParseConfidence(doc,
            [r EXCEPT !.error_message = JsonValue(doc, "error", "")])

ParseAnalysis(doc, r) ==
    IF JsonThrows(doc, "analysis", "string") THEN Thrown(r)
    ELSE ParseError(doc, [r EXCEPT !.analysis = JsonValue(doc, "analysis", "")])

ParseTry(doc) ==
    IF doc.kind # "object" THEN Thrown(DefaultResult)
    ELSE IF JsonThrows(doc, "success", "bool") THEN Thrown(DefaultResult)
    ELSE ParseAnalysis(doc,
            [DefaultResult EXCEPT !.success = JsonValue(doc, "success", FALSE)])

\* the handler of json::exception
ParseCatch(t) ==
    IF t.threw
    THEN [t.value EXCEPT !.success = FALSE,
                          !.error_message = "Failed to parse AI service response"]
    ELSE t.value

parseServiceResponse(json_response) == ParseCatch(ParseTry(json_response))

----------------------------------------------------------------------------
(* One run of the external service.  `outcome` is what the environment    *)
(* does with this attempt: kind is one of                                  *)
(*   "input_file_fail"  the temporary input file cannot be created         *)
(*   "exception"        a std::exception is raised while the request is    *)
(*                      built or written (payload.dump, string building)   *)
(*   "popen_fail"       popen returns NULL                                 *)
(*   "no_output"        the process ran, no output document exists         *)
(*   "exit_nonzero"     an output document exists, exit code is not 0      *)
(*   "exit_zero"        exit code 0, output document is `doc`              *)

ProcessRan(outcome) == outcome.kind \in {"no_output", "exit_nonzero", "exit_zero"}

ServiceError(msg) == Returned([DefaultResult EXCEPT !.error_message = msg])

\* the try block of executePythonService
PythonServiceTry(outcome) ==
    CASE outcome.kind = "input_file_fail" ->
            ServiceError("Failed to create temporary input file")
      [] outcome.kind = "exception"       -> Thrown(DefaultResult)
      [] outcome.kind = "popen_fail"      ->
            ServiceError("Failed to execute Python service")
      [] outcome.kind = "no_output"       ->
            ServiceError("AI service did not produce output")
      [] outcome.kind = "exit_nonzero"    ->
            ServiceError("AI service exited with code")
      [] outcome.kind = "exit_zero"       ->
            Returned(parseServiceResponse(outcome.doc))

\* a build of executePythonService whose handler rethrows
ServiceCatch_rethrow(t) == t

\* the handler of std::exception
ServiceCatch(t) ==
    IF t.threw
    THEN Returned([t.value EXCEPT
                     !.success = FALSE,
                     !.error_message = "Exception in AI service execution"])
    ELSE t

executePythonService(outcome) == ServiceCatch(PythonServiceTry(outcome))

\* the two temporary documents of one run
TempInput  == "temp_input"
TempOutput == "temp_output"

\* where a std::exception of the try block is raised: while the payload and
\* the names are built (before the input document exists), by payload.dump
\* into the open input document, or while the output document is read
ExceptionPoints == {"build", "write", "read"}

FileCreated(files, f) == files \cup {f}
FileRemoved(files, f) == files \ {f}

\* the temporary documents that exist when executePythonService returns
TempFilesAfter(outcome, point) ==
    IF outcome.kind = "input_file_fail" THEN {}
    ELSE IF outcome.kind = "exception" /\ point = "build" THEN {}
    ELSE IF outcome.kind = "exception" /\ point = "write"
    THEN FileCreated({}, TempInput)
    ELSE IF outcome.kind = "popen_fail"
    THEN FileRemoved(FileCreated({}, TempInput), TempInput)
    ELSE IF outcome.kind = "no_output"
    THEN FileRemoved(FileCreated({}, TempInput), TempInput)
    ELSE IF outcome.kind = "exception"
    THEN FileCreated(FileCreated({}, TempInput), TempOutput)
    ELSE FileRemoved(FileRemoved(FileCreated(FileCreated({}, TempInput), TempOutput),
                                 TempInput),
                     TempOutput)

\* the points at which the first n runs of a dispatch can raise
PointsOf(outcomes, n) ==
    IF \E i \in 1..n : outcomes[i].kind = "exception"
    THEN ExceptionPoints
    ELSE {"build"}

\* the temporary documents left by the first n runs of a dispatch
TempFilesLeft(outcomes, n, point) ==
    UNION {TempFilesAfter(outcomes[i], point) : i \in 1..n}

----------------------------------------------------------------------------
(* executeWithRetry.  `outcomes` gives the environment's outcome of the    *)
(* 1st, 2nd, ... invocation of the operation.  The answer carries the      *)
(* returned result, the number of invocations, the delays slept and the    *)
(* time that passed.                                                       *)

ProcessRunMs == 1

\* a build that never lengthens the delay
DoubleDelay_constant(delay_ms) == delay_ms

\* delay_ms *= 2 on a 32-bit int
DoubleDelay(delay_ms) ==
    IF delay_ms > INT_MAX \div 2
    THEN ((delay_ms - INT_MAX) + (delay_ms - INT_MAX)) - 2
    ELSE delay_ms * 2

SleepMs(delay_ms) == IF delay_ms > 0 THEN delay_ms ELSE 0

RetryStart ==
    [threw |-> FALSE, value |-> DefaultResult, attempts |-> 0, delays |-> <<>>,
     elapsed |-> 0, delay_ms |-> INITIAL_DELAY_MS, done |-> FALSE]

\* a build of the loop that runs the operation once more after a success
RetryAfter_again(st, t, ran, attempt, max_retries) ==
    IF t.threw
    THEN [st EXCEPT !.value = t.value, !.attempts = @ + 1, !.elapsed = @ + ran,
                    !.threw = TRUE, !.done = TRUE]
    ELSE IF attempt + 1 <= max_retries
    THEN [st EXCEPT !.value = t.value, !.attempts = @ + 1,
                    !.elapsed = @ + ran + SleepMs(st.delay_ms),
                    !.delays = Append(@, st.delay_ms),
                    !.delay_ms = DoubleDelay(st.delay_ms)]
    ELSE [st EXCEPT !.value = t.value, !.attempts = @ + 1, !.elapsed = @ + ran]

\* the loop body after `result = operation()` answered t and took `ran` ms
RetryAfter(st, t, ran, attempt, max_retries) ==
    IF t.threw
    THEN [st EXCEPT !.value = t.value, !.attempts = @ + 1, !.elapsed = @ + ran,
                    !.threw = TRUE, !.done = TRUE]
    ELSE IF t.value.success
    THEN [st EXCEPT !.value = t.value, !.attempts = @ + 1, !.elapsed = @ + ran,
                    !.done = TRUE]
    ELSE IF attempt + 1 <= max_retries
    THEN [st EXCEPT !.value = t.value, !.attempts = @ + 1,
                    !.elapsed = @ + ran + SleepMs(st.delay_ms),
                    !.delays = Append(@, st.delay_ms),
                    !.delay_ms = DoubleDelay(st.delay_ms)]
    ELSE [st EXCEPT !.value = t.value, !.attempts = @ + 1, !.elapsed = @ + ran]

\* one pass through the body of the while loop, entered with `attempt`;
\* st.done says that the function has already returned
RetryStep(st, outcomes, attempt, max_retries) ==
    IF st.done THEN st
    ELSE RetryAfter(st, executePythonService(outcomes[st.attempts + 1]),
                    IF ProcessRan(outcomes[st.attempts + 1]) THEN ProcessRunMs ELSE 0,
                    attempt, max_retries)

\* at[attempt]: the state with which the loop test `attempt <= max_retries`
\* is reached for the value `attempt`
executeWithRetry(outcomes, max_retries) ==
    LET at[attempt \in 0..(max_retries + 1)] ==
            IF attempt = 0 THEN RetryStart
            ELSE RetryStep(at[attempt - 1], outcomes, attempt - 1, max_retries)
    IN IF max_retries < 0 THEN RetryStart ELSE at[max_retries + 1]

----------------------------------------------------------------------------
(* Sanitizing and fingerprinting *)

NotNul(c) == c # NUL

Truncate(sanitized) ==
    IF Len(sanitized) > MAX_INPUT_SIZE
    THEN SubSeq(sanitized, 1, MAX_INPUT_SIZE)
    ELSE sanitized

sanitizeInput(input) == Truncate(SelectSeq(input, NotNul))

\* SHA256 followed by hex formatting, taken as collision free: the digest
\* of a text is that text under a tag
Sha256Hex(text) == <<"sha256">> \o text

\* a build that leaves the file path out of the fingerprint
generateCacheKey_nopath(code, language, file_path, cfg) ==
    Sha256Hex(code \o <<"|">> \o language \o <<"|">> \o cfg.model_type)

generateCacheKey(code, language, file_path, cfg) ==
    Sha256Hex(code \o <<"|">> \o language \o <<"|">> \o file_path
                   \o <<"|">> \o cfg.model_type)

----------------------------------------------------------------------------
(* The cache: a function from keys to CacheEntry records *)

EmptyCache == <<>>

CacheErase(cache, key) == [k \in (DOMAIN cache) \ {key} |-> cache[k]]

Miss(cache) == [cache |-> cache, has_value |-> FALSE, value |-> DefaultResult]

Hit(cache, key) == [cache |-> cache, has_value |-> TRUE, value |-> cache[key].result]

\* a build whose lookup does not mark the stored result as served from cache
getFromCache_unmarked(cache, key, t) ==
    IF key \in DOMAIN cache
    THEN IF ~isExpired(cache[key], CACHE_TTL, t)
         THEN [cache |-> [cache EXCEPT ![key].access_count = @ + 1],
               has_value |-> TRUE, value |-> cache[key].result]
         ELSE Miss(CacheErase(cache, key))
    ELSE Miss(cache)

\* std::optional<AIAnalysisResult> getFromCache(key), and the cache it leaves
getFromCache(cache, key, t) ==
    IF key \in DOMAIN cache
    THEN IF ~isExpired(cache[key], CACHE_TTL, t)
         THEN Hit([cache EXCEPT ![key].access_count = @ + 1,
                                ![key].result.from_cache = TRUE], key)
         ELSE Miss(CacheErase(cache, key))
    ELSE Miss(cache)

\* min_element over an unordered_map: any entry of least timestamp may be
\* the one found.  The set of caches evictCacheEntries can leave.
evictCacheEntries(cache) ==
    IF DOMAIN cache = {} THEN {cache}
    ELSE {CacheErase(cache, lru) :
            lru \in {k \in DOMAIN cache :
                       \A j \in DOMAIN cache :
                          cache[k].timestamp <= cache[j].timestamp}}

CacheEntry(key, result, t) ==
    [key |-> key, result |-> result, timestamp |-> t, access_count |-> 1]

CachePut(cache, key, entry) ==
    [k \in (DOMAIN cache) \cup {key} |-> IF k = key THEN entry ELSE cache[k]]

\* the set of caches storeInCache can leave
storeInCache(cache, key, result, t, cfg) ==
    {CachePut(c, key, CacheEntry(key, result, t)) :
        c \in IF Cardinality(DOMAIN cache) >= cfg.cache_max_size
              THEN evictCacheEntries(cache)
              ELSE {cache}}

----------------------------------------------------------------------------
(* Metrics *)

InitialMetrics ==
    [total_requests        |-> 0,
     successful_requests   |-> 0,
     failed_requests       |-> 0,
     cache_hits            |-> 0,
     cache_misses          |-> 0,
     total_processing_time |-> 0,
     avg_processing_time   |-> 0]

Averaged(m) ==
    IF m.total_requests > 0
    THEN [m EXCEPT !.avg_processing_time =
                       m.total_processing_time \div m.total_requests]
    ELSE m

\* a build that forgets to count failures
updateMetrics_nofail(m, duration, success) ==
    Averaged([m EXCEPT !.total_requests = @ + 1,
                       !.successful_requests = IF success THEN @ + 1 ELSE @,
                       !.total_processing_time = @ + duration])

\* a build that counts every request as successful, and failures as failed too
updateMetrics_both(m, duration, success) ==
    Averaged([m EXCEPT !.total_requests = @ + 1,
                       !.successful_requests = @ + 1,
                       !.failed_requests = IF success THEN @ ELSE @ + 1,
                       !.total_processing_time = @ + duration])

updateMetrics(m, duration, success) ==
    Averaged([m EXCEPT !.total_requests = @ + 1,
                       !.successful_requests = IF success THEN @ + 1 ELSE @,
                       !.failed_requests = IF success THEN @ ELSE @ + 1,
                       !.total_processing_time = @ + duration])

----------------------------------------------------------------------------
(* analyzeCode.  `scripts` is the set of outcome sequences the external    *)
(* service may answer this call with.  The value is the set of ways the    *)
(* call can end: what it returns (or that it threw), the cache and the     *)
(* metrics it leaves, the time it took, and what it did on the way.        *)

Ended(ret, threw, cache, metrics, elapsed, lookup, attempts, delays, script) ==
    [ret |-> ret, threw |-> threw, cache |-> cache, metrics |-> metrics,
     elapsed |-> elapsed, lookup |-> lookup, attempts |-> attempts,
     delays |-> delays, script |-> script]

\* lines 101-115: the immediate failure on an empty code or language
Rejected(msg) ==
    {Ended([DefaultResult EXCEPT !.error_message = msg], FALSE, analysis_cache_,
           updateMetrics(metrics_, 0, FALSE), 0, "none", 0, <<>>, <<>>)}

\* a build that caches whatever the dispatch returned
shouldCache_always(result, cfg) == cfg.enable_caching

\* line 163: result.success && config_.enable_caching
shouldCache(result, cfg) == result.success /\ cfg.enable_caching

\* lines 156-176: the dispatch answered r, the result is `result`
Finish(r, result, cache, metrics, key, lookup, script) ==
    IF r.threw
    THEN {Ended(r.value, TRUE, cache, metrics, r.elapsed, lookup, r.attempts,
                r.delays, script)}
    ELSE {Ended(result, FALSE, c,
                updateMetrics(metrics, result.processing_time, result.success),
                r.elapsed, lookup, r.attempts, r.delays, script) :
             c \in IF shouldCache(result, config_)
                   THEN storeInCache(cache, key, result, now + r.elapsed, config_)
                   ELSE {cache}}

\* lines 148-160: the retrying dispatch and the processing time
Timed(r) == [r.value EXCEPT !.processing_time = r.elapsed]

Dispatch(r, cache, metrics, key, lookup, script) ==
    Finish(r, Timed(r), cache, metrics, key, lookup, script)

Dispatched(scripts, cache, metrics, key, lookup) ==
    UNION {Dispatch(executeWithRetry(script, config_.max_retries),
                    cache, metrics, key, lookup, script) : script \in scripts}

\* lines 125-146: after the lookup
Looked(looked, key, lookup, scripts) ==
    IF looked.has_value
    THEN {Ended(looked.value, FALSE, looked.cache,
                [updateMetrics(metrics_, 0, TRUE) EXCEPT !.cache_hits = @ + 1],
                0, "hit", 0, <<>>, <<>>)}
    ELSE Dispatched(scripts, looked.cache,
                    [metrics_ EXCEPT !.cache_misses = @ + 1], key, lookup)

\* lines 122-125: the key and the lookup
Keyed(key, scripts) ==
    IF config_.enable_caching
    THEN Looked(getFromCache(analysis_cache_, key, now), key,
                IF key \in DOMAIN analysis_cache_ THEN "expired" ELSE "absent",
                scripts)
    ELSE Dispatched(scripts, analysis_cache_, metrics_, key, "none")

\* analyzeCode from the sanitizing of its inputs on
analyzeCodeValid(code, language, file_path, scripts) ==
    Keyed(generateCacheKey(sanitizeInput(code), sanitizeInput(language),
                           sanitizeInput(file_path), config_),
          scripts)

\* a build without the input validation
analyzeCode_unchecked(code, language, file_path, scripts) ==
    analyzeCodeValid(code, language, file_path, scripts)

analyzeCode(code, language, file_path, scripts) ==
    IF code = <<>> THEN Rejected("Empty code provided")
    ELSE IF language = <<>> THEN Rejected("Language not specified")
    ELSE analyzeCodeValid(code, language, file_path, scripts)

----------------------------------------------------------------------------
(* Inputs *)

\* requests (code, language, file_path): three different fingerprints, one
\* request that sanitizes to another one's fingerprint, and the two
\* invalid shapes
Requests ==
    {<<<<"a">>, <<"c">>, <<>>>>,
     <<<<"b">>, <<"c">>, <<>>>>,
     <<<<"a">>, <<"c">>, <<"p">>>>,
     <<<<NUL, "a">>, <<"c">>, <<>>>>,
     <<<<>>, <<"c">>, <<>>>>,
     <<<<"a">>, <<>>, <<>>>>}

RetryRequests ==
    {<<<<"a">>, <<"c">>, <<>>>>,
     <<<<"b">>, <<"c">>, <<>>>>,
     <<<<>>, <<"c">>, <<>>>>}

Executables  == {<<>>, <<"p", "y">>}
ServicePaths == {<<>>, <<"s">>}
ModelTypes   == {<<"m">>}
Timeouts     == {-1, 0, 30}
RetryCounts  == {-1, 0, 2}
CacheSizes   == {0, 1, 2}

ConfigSpace ==
    [python_executable : Executables,
     ai_service_path   : ServicePaths,
     model_type        : ModelTypes,
     timeout_seconds   : Timeouts,
     max_retries       : RetryCounts,
     enable_caching    : BOOLEAN,
     enable_learning   : {TRUE},
     cache_max_size    : CacheSizes]

ValidConfigs == {c \in ConfigSpace : validate(c)}

\* the configurations of the cache runs: every capacity, caching on or off
CacheConfigs == {c \in ValidConfigs : c.max_retries = 0}

\* one configuration that fails validation (timeout_seconds = 0)
BadTimeoutConfig ==
    [python_executable |-> <<"p", "y">>, ai_service_path |-> <<"s">>,
     model_type |-> <<"m">>, timeout_seconds |-> 0, max_retries |-> 0,
     enable_caching |-> TRUE, enable_learning |-> TRUE, cache_max_size |-> 1]

\* the configurations of the retry runs
RetryConfigs == {c \in ValidConfigs : c.cache_max_size = 1}

\* response documents of the external service
OkDoc1 ==
    JsonObject([success |-> JBool(TRUE), analysis |-> JString("A1"),
                confidence |-> JNumber(90), severity |-> JNumber(2),
                recommendations |-> JArray(<<JString("r1")>>)])
OkDoc2 ==
    JsonObject([success |-> JBool(TRUE), analysis |-> JString("A2")])
FailDoc ==
    JsonObject([success |-> JBool(FALSE), error |-> JString("E"),
                recommendations |-> JArray(<<JString("r1")>>)])
EmptyDoc == JsonObject(<<>>)
BadRecDoc ==
    JsonObject([success |-> JBool(TRUE), analysis |-> JString("A1"),
                recommendations |-> JArray(<<JString("r1"), JNumber(5)>>)])
BadTypeDoc ==
    JsonObject([success |-> JString("yes")])

Outcome(kind, doc) == [kind |-> kind, doc |-> doc]

SuccessOutcomes == {Outcome("exit_zero", d) : d \in {OkDoc1, OkDoc2}}

CallFailures ==
    {Outcome(k, JsonMalformed) :
        k \in {"input_file_fail", "exception", "popen_fail", "no_output",
               "exit_nonzero"}}
    \cup {Outcome("exit_zero", d) : d \in {JsonMalformed, JsonNotObject,
                                           BadRecDoc, BadTypeDoc}}

FailOutcomes ==
    CallFailures \cup {Outcome("exit_zero", d) : d \in {FailDoc, EmptyDoc}}

\* the outcome sequences for a dispatch with n retries: k failures of one
\* kind and then success, or failure throughout
ScriptsOf(fails, wins, n) ==
    {[i \in 1..(n + 1) |-> IF i <= k THEN f ELSE g] :
        k \in 0..n, f \in fails, g \in wins}
    \cup {[i \in 1..(n + 1) |-> f] : f \in fails}

\* every kind of failure, one successful response
Scripts(n) == ScriptsOf(FailOutcomes, {Outcome("exit_zero", OkDoc1)}, n)

\* two kinds of failure: the process cannot be started, the service
\* answers success = false
CacheScripts(n) ==
    ScriptsOf({Outcome("popen_fail", JsonMalformed), Outcome("exit_zero", FailDoc)},
              SuccessOutcomes, n)

\* the time that passes between two calls: exactly the TTL, or 1 ms more
ClockSteps == {CACHE_TTL * 1000, CACHE_TTL * 1000 + 1}

----------------------------------------------------------------------------
(* State after construction *)

NoCall ==
    [op |-> "init", code |-> <<>>, language |-> <<>>, file_path |-> <<>>,
     config |-> DefaultConfig, ret |-> DefaultResult, ok |-> TRUE,
     threw |-> FALSE, lookup |-> "none", attempts |-> 0, delays |-> <<>>,
     script |-> <<>>, repeat |-> FALSE, files |-> {}]

NoThread ==
    [pc |-> "unused", code |-> <<>>, language |-> <<>>, file_path |-> <<>>,
     result |-> DefaultResult, callbacks |-> <<>>]

\* no directory scan has been called
NoScan ==
    [op |-> "none", pc |-> "idle", tree |-> <<>>, root_ok |-> TRUE,
     max_threads |-> 0, i |-> 1, all_results |-> <<>>, files_to_analyze |-> <<>>,
     current_index |-> 0, has_errors |-> FALSE, results_mutex |-> 0,
     error_counts_ |-> <<>>, threw |-> FALSE, signals |-> 0,
     ret |-> <<>>, cancel_during |-> FALSE, cancel_inflight |-> {},
     started |-> {}, claims |-> <<>>]

NoWorker ==
    [pc |-> "unused", index |-> 0, file_results |-> <<>>,
     caught |-> [class |-> "none", code |-> 0], seen |-> 0]

NoCaller ==
    [pc |-> "idle", op |-> "none", held |-> {}, arg |-> DefaultConfig,
     key |-> <<>>, result |-> DefaultResult, available |-> FALSE]

\* the constructor sets last_health_check_ to the current time and
\* service_available_ to false; its own isServiceAvailable call returns that
\* value without a probe; probed says that a probe has recorded its outcome
NoHealthCheck == [service_available_ |-> FALSE, fresh |-> TRUE, probed |-> FALSE]

\* no source file exists
NoDisk == <<>>

\* no fix has been asked for
NoFix ==
    [op |-> "none", lang |-> "none", file_path |-> <<>>, rule_id |-> "",
     line_number |-> 0, ai_suggested_fix |-> <<>>, ret |-> FALSE,
     results |-> <<>>, processed |-> {}, fixes_applied |-> 0,
     total_fixable |-> 0, before |-> NoDisk]

\* no run of the external service: the value of the system clock, the
\* documents in /tmp (name -> the thread whose request or response it holds)
\* and the position of every thread
NoRun ==
    [pc |-> "idle", temp_input |-> <<>>, temp_output |-> <<>>, read |-> 0,
     error_message |-> ""]

NoRuns == [clock |-> 0, tmp |-> <<>>, th |-> [t \in 1..MaxCallers |-> NoRun]]

\* the engine and the manager as constructed with one of `configs`, the
\* source files being one of `disks`
ConstructedOn(configs, disks) ==
    /\ disk \in disks
    /\ fix = NoFix
    /\ runs = NoRuns
    /\ config_ \in configs
    /\ analysis_cache_ = EmptyCache
    /\ metrics_ = InitialMetrics
    /\ now = 0
    /\ calls = 0
    /\ ticks = 0
    /\ last = NoCall
    /\ threads = [t \in 1..MaxAsync |-> NoThread]
    /\ alive = TRUE
    /\ analysis_cancelled_ = FALSE
    /\ scan = NoScan
    /\ workers = [w \in 1..MaxWorkers |-> NoWorker]
    /\ callers = [t \in 1..MaxCallers |-> NoCaller]
    /\ health = NoHealthCheck

Constructed(configs) == ConstructedOn(configs, {NoDisk})

Init == Constructed(CacheConfigs)

----------------------------------------------------------------------------
(* The public operations *)

SameRequest(code, language, file_path) ==
    /\ last.op = "analyzeCode"
    /\ last.code = code
    /\ last.language = language
    /\ last.file_path = file_path

AnalyzeCode(code, language, file_path, scripts) ==
    /\ alive
    /\ calls < MaxCalls
    /\ \E o \in analyzeCode(code, language, file_path, scripts) :
       \E point \in PointsOf(o.script, o.attempts) :
          /\ analysis_cache_' = o.cache
          /\ metrics_' = o.metrics
          /\ now' = now + o.elapsed
          /\ last' = [NoCall EXCEPT !.op = "analyzeCode", !.code = code,
                                    !.language = language, !.file_path = file_path,
                                    !.ret = o.ret, !.threw = o.threw,
                                    !.lookup = o.lookup, !.attempts = o.attempts,
                                    !.delays = o.delays, !.script = o.script,
                                    !.repeat = SameRequest(code, language, file_path),
                                    !.files = TempFilesLeft(o.script, o.attempts, point)]
    /\ calls' = calls + 1
    /\ UNCHANGED <<config_, ticks, threads, alive>>
    /\ UNCHANGED <<managerVars, callers, health, fixVars>>

UpdateConfiguration(config) ==
    /\ alive
    /\ calls < MaxCalls
    /\ IF ~validate(config)
       THEN /\ config_' = config_
            /\ last' = [NoCall EXCEPT !.op = "updateConfiguration",
                                      !.config = config, !.ok = FALSE]
       ELSE /\ config_' = config
            /\ last' = [NoCall EXCEPT !.op = "updateConfiguration",
                                      !.config = config, !.ok = TRUE]
    /\ calls' = calls + 1
    /\ UNCHANGED <<analysis_cache_, metrics_, now, ticks, threads, alive>>
    /\ UNCHANGED <<managerVars, callers, health, fixVars>>

ClearCache ==
    /\ alive
    /\ calls < MaxCalls
    /\ analysis_cache_' = EmptyCache
    /\ last' = [NoCall EXCEPT !.op = "clearCache"]
    /\ calls' = calls + 1
    /\ UNCHANGED <<config_, metrics_, now, ticks, threads, alive>>
    /\ UNCHANGED <<managerVars, callers, health, fixVars>>

\* time passing between calls
Tick(d) ==
    /\ alive
    /\ ticks < MaxTicks
    /\ now' = now + d
    /\ ticks' = ticks + 1
    /\ UNCHANGED <<config_, analysis_cache_, metrics_, calls, last, threads, alive>>
    /\ UNCHANGED <<managerVars, callers, health, fixVars>>

----------------------------------------------------------------------------
(* The engine used by one caller: requests, configuration updates, cache   *)
(* clearing and the passing of time                                        *)

CacheAnalyze ==
    \E rq \in Requests :
        AnalyzeCode(rq[1], rq[2], rq[3], CacheScripts(config_.max_retries))

CacheReconfigure ==
    \E config \in CacheConfigs \cup {BadTimeoutConfig} : UpdateConfiguration(config)

CacheTick == \E d \in ClockSteps : Tick(d)

Next ==
    \/ CacheAnalyze
    \/ CacheReconfigure
    \/ ClearCache
    \/ CacheTick

Spec == Init /\ [][Next]_vars

----------------------------------------------------------------------------
(* The retrying dispatch under every kind of failure of the service        *)

InitRetry == Constructed(RetryConfigs)

RetryAnalyze ==
    \E rq \in RetryRequests :
        AnalyzeCode(rq[1], rq[2], rq[3], Scripts(config_.max_retries))

NextRetry ==
    \/ RetryAnalyze
    \/ ClearCache

SpecRetry == InitRetry /\ [][NextRetry]_vars

----------------------------------------------------------------------------
(* Runtime reconfiguration with every configuration of the input space     *)

InitConfig == Constructed(ValidConfigs)

ConfigAnalyze ==
    AnalyzeCode(<<"a">>, <<"c">>, <<>>, CacheScripts(config_.max_retries))

\* every combination of valid and invalid executable, service path, timeout
\* and retry count
ConfigInputs == {c \in ConfigSpace : c.cache_max_size = 1}

ConfigUpdate == \E config \in ConfigInputs : UpdateConfiguration(config)

NextConfig ==
    \/ ConfigUpdate
    \/ ConfigAnalyze

SpecConfig == InitConfig /\ [][NextConfig]_vars

----------------------------------------------------------------------------
(* analyzeCodeAsync: a detached thread that runs analyzeCode and hands     *)
(* the result to the callback.  A thread is                                *)
(*   "unused"      not started yet                                         *)
(*   "started"     detached, analyzeCode not yet run                       *)
(*   "callback"    analyzeCode returned, callback(result) is next          *)
(*   "catch"       a std::exception reached the handler, callback(error)   *)
(*                 is next                                                 *)
(*   "done"        the thread function returned                            *)
(*   "terminated"  an exception left the thread function: std::terminate   *)

AsyncFailure ==
    [DefaultResult EXCEPT !.error_message = "Async analysis failed"]

\* what the callback does when invoked
CallbackBehaviours == {"returns", "throws_std", "throws_other"}

FreeThreads == {t \in DOMAIN threads : threads[t].pc = "unused"}

\* the caller's side: start the thread, detach it and return
AnalyzeCodeAsync(code, language, file_path) ==
    /\ alive
    /\ calls < MaxCalls
    /\ FreeThreads # {}
    /\ LET t == CHOOSE u \in FreeThreads : \A v \in FreeThreads : u <= v IN
       threads' = [threads EXCEPT ![t] = [NoThread EXCEPT !.pc = "started",
                                                          !.code = code,
                                                          !.language = language,
                                                          !.file_path = file_path]]
    /\ last' = [NoCall EXCEPT !.op = "analyzeCodeAsync", !.code = code,
                              !.language = language, !.file_path = file_path]
    /\ calls' = calls + 1
    /\ UNCHANGED <<config_, analysis_cache_, metrics_, now, ticks, alive>>
    /\ UNCHANGED <<managerVars, callers, health, fixVars>>

\* the thread: AIAnalysisResult result = analyzeCode(code, language, file_path)
AsyncAnalyze(t, scripts) ==
    /\ alive
    /\ threads[t].pc = "started"
    /\ \E o \in analyzeCode(threads[t].code, threads[t].language,
                            threads[t].file_path, scripts) :
          /\ analysis_cache_' = o.cache
          /\ metrics_' = o.metrics
          /\ now' = now + o.elapsed
          /\ threads' = [threads EXCEPT ![t].pc = IF o.threw THEN "catch" ELSE "callback",
                                        ![t].result = o.ret]
    /\ UNCHANGED <<config_, calls, ticks, last, alive>>
    /\ UNCHANGED <<managerVars, callers, health, fixVars>>

\* the thread: analyzeCode raises a std::exception (std::bad_alloc while
\* the inputs are copied by sanitizeInput) before it touches the engine
AsyncAnalyzeThrows(t) ==
    /\ alive
    /\ threads[t].pc = "started"
    /\ threads[t].code # <<>>
    /\ threads[t].language # <<>>
    /\ threads' = [threads EXCEPT ![t].pc = "catch"]
    /\ UNCHANGED <<config_, analysis_cache_, metrics_, now, calls, ticks, last, alive>>
    /\ UNCHANGED <<managerVars, callers, health, fixVars>>

\* the thread: callback(result), inside the try block
AsyncCallback(t, behaviour) ==
    /\ alive
    /\ threads[t].pc = "callback"
    /\ threads' = [threads EXCEPT
                     ![t].callbacks = Append(@, threads[t].result),
                     ![t].pc = CASE behaviour = "returns"      -> "done"
                                 [] behaviour = "throws_std"   -> "catch"
                                 [] behaviour = "throws_other" -> "terminated"]
    /\ alive' = (behaviour # "throws_other")
    /\ UNCHANGED <<config_, analysis_cache_, metrics_, now, calls, ticks, last>>
    /\ UNCHANGED <<managerVars, callers, health, fixVars>>

\* the thread: the handler of std::exception, callback(error_result)
AsyncCatch(t, behaviour) ==
    /\ alive
    /\ threads[t].pc = "catch"
    /\ threads' = [threads EXCEPT
                     ![t].callbacks = Append(@, AsyncFailure),
                     ![t].pc = IF behaviour = "returns" THEN "done" ELSE "terminated"]
    /\ alive' = (behaviour = "returns")
    /\ UNCHANGED <<config_, analysis_cache_, metrics_, now, calls, ticks, last>>
    /\ UNCHANGED <<managerVars, callers, health, fixVars>>

InitAsync == Constructed({c \in CacheConfigs : c.cache_max_size = 1})

AsyncStart ==
    \E rq \in RetryRequests : AnalyzeCodeAsync(rq[1], rq[2], rq[3])

AsyncRun ==
    \E t \in DOMAIN threads : AsyncAnalyze(t, CacheScripts(config_.max_retries))

AsyncRunThrows == \E t \in DOMAIN threads : AsyncAnalyzeThrows(t)

AsyncInvoke ==
    \E t \in DOMAIN threads, b \in CallbackBehaviours : AsyncCallback(t, b)

AsyncHandle ==
    \E t \in DOMAIN threads, b \in CallbackBehaviours : AsyncCatch(t, b)

NextAsync ==
    \/ AsyncStart
    \/ AsyncRun
    \/ AsyncRunThrows
    \/ AsyncInvoke
    \/ AsyncHandle
    \/ ClearCache

SpecAsync == InitAsync /\ [][NextAsync]_vars

----------------------------------------------------------------------------
(* The analysis manager: analyzers and analyzeFile.  A file of the tree is  *)
(* a record: its path, whether it is a regular file, whether it can be     *)
(* opened, whether reading it into memory fails (std::bad_alloc), the      *)
(* findings the analyzer's analyzeCode derives from its content, and       *)
(* whether the enhancement engine adds an insight for it.                  *)

\* an exception object: its class and, for the AnalyzerException family,
\* its error code
Exception(class, code) == [class |-> class, code |-> code]
AnalysisCancelled == Exception("AnalysisException", 2000)
BadAlloc    == Exception("std::bad_alloc", 0)
OutOfRange  == Exception("std::out_of_range", 0)
FilesystemError == Exception("std::filesystem::filesystem_error", 0)
UnknownAnalyzerException == Exception("AnalyzerException", 9999)

IsAnalyzerException(e) ==
    e.class \in {"AnalyzerException", "FileSystemException", "AnalysisException"}

\* size_t subtraction: below zero it wraps to a value near SIZE_MAX, kept
\* here as a value near the largest integer, above every length
SizeSub(a, b) == IF a >= b THEN a - b ELSE INT_MAX - (b - a) + 1

\* std::string::substr(pos): throws std::out_of_range when pos > size()
Substr(s, pos) ==
    IF pos > Len(s) THEN Thrown(OutOfRange)
    ELSE Returned(SubSeq(s, pos + 1, Len(s)))

\* file_path.size() >= ext.size() && file_path.substr(size - ext.size()) == ext
EndsWith(file_path, ext) ==
    /\ Len(file_path) >= Len(ext)
    /\ SubSeq(file_path, Len(file_path) - Len(ext) + 1, Len(file_path)) = ext

CppExtensions ==
    <<<<".", "c", "p", "p">>, <<".", "c", "c">>, <<".", "c", "x", "x">>,
      <<".", "c">>, <<".", "h">>, <<".", "h", "p", "p">>, <<".", "h", "h">>,
      <<".", "h", "x", "x">>>>
GoExtensions == <<<<".", "g", "o">>>>
PythonExtensions ==
    <<<<".", "p", "y">>, <<".", "p", "y", "w">>, <<".", "p", "y", "i">>>>

ExtensionMatch(file_path, extensions) ==
    \E k \in 1..Len(extensions) : EndsWith(file_path, extensions[k])

\* the tail of the path compared with an extension: substr may throw
TailIs(file_path, n, ext) ==
    IF Substr(file_path, SizeSub(Len(file_path), n)).threw
    THEN Thrown(OutOfRange)
    ELSE Returned(Substr(file_path, SizeSub(Len(file_path), n)).value = ext)

\* a || b where a and b may throw
OrElse(a, b) == IF a.threw \/ a.value THEN a ELSE b

JavaScriptIsSupportedFile(file_path) ==
    IF Len(file_path) < 3 THEN Returned(FALSE)
    ELSE OrElse(TailIs(file_path, 3, <<".", "j", "s">>),
         OrElse(TailIs(file_path, 4, <<".", "j", "s", "x">>),
         OrElse(TailIs(file_path, 3, <<".", "t", "s">>),
                TailIs(file_path, 4, <<".", "t", "s", "x">>))))

JavaIsSupportedFile(file_path) ==
    /\ Len(file_path) >= 5
    /\ SubSeq(file_path, Len(file_path) - 4, Len(file_path))
          = <<".", "j", "a", "v", "a">>

\* isSupportedFile of the analyzer registered under `lang`
isSupportedFile(lang, file_path) ==
    CASE lang = "cpp"        -> Returned(ExtensionMatch(file_path, CppExtensions))
      [] lang = "go"         -> Returned(ExtensionMatch(file_path, GoExtensions))
      [] lang = "java"       -> Returned(JavaIsSupportedFile(file_path))
      [] lang = "javascript" -> JavaScriptIsSupportedFile(file_path)
      [] lang = "python"     -> Returned(ExtensionMatch(file_path, PythonExtensions))

\* analyzers_ is a std::map: the loop visits the keys in this order
AnalyzerOrder == <<"cpp", "go", "java", "javascript", "python">>

\* the loop of getAnalyzerForFile from the k-th analyzer on
AnalyzerFrom(file_path) ==
    LET from[k \in 1..(Len(AnalyzerOrder) + 1)] ==
            IF k > Len(AnalyzerOrder) THEN Returned("none")
            ELSE IF isSupportedFile(AnalyzerOrder[k], file_path).threw
                 THEN Thrown(OutOfRange)
            ELSE IF isSupportedFile(AnalyzerOrder[k], file_path).value
                 THEN Returned(AnalyzerOrder[k])
            ELSE from[k + 1]
    IN from

getAnalyzerForFile(file_path) == AnalyzerFrom(file_path)[1]

Finding(file_path, rule_id, message, severity, line_number) ==
    [file_path |-> file_path, rule_id |-> rule_id, message |-> message,
     severity |-> severity, line_number |-> line_number]

UnsupportedLanguage(file_path) ==
    <<Finding(file_path, "UNSUPPORTED_LANGUAGE", "File type not supported",
              "ERROR", 0)>>

\* analyze of the C++, Go and Python analyzers: a file that cannot be opened
\* gives one FILE_ERROR finding, otherwise the findings of analyzeCode
AnalyzeSource(file) ==
    IF ~file.readable
    THEN <<Finding(file.path, "FILE_ERROR", <<"Cannot open file: ", file.path>>,
                  "ERROR", 0)>>
    ELSE file.findings

\* analyzer->analyze(file_path)
analyze(lang, file) ==
    CASE lang = "javascript" ->
            <<Finding(file.path, "JS_PLACEHOLDER",
                      "JavaScript analysis not yet implemented", "INFO", 0)>>
      [] lang = "java" ->
            <<Finding(file.path, "JAVA_PLACEHOLDER",
                      "Java analysis not yet implemented", "INFO", 0)>>
      [] OTHER -> AnalyzeSource(file)

\* ai_engine_->enhanceAnalysis: the findings, with the engine's insight
\* appended when the engine is available and has one for this file
enhanceAnalysis(results, file) ==
    IF file.ai
    THEN Append(results, Finding(file.path, "AI_INSIGHT", "AI insight", "INFO", 0))
    ELSE results

\* the body of analyzeFile once an analyzer was found
Analyzed(lang, file) ==
    IF file.too_large THEN Thrown(BadAlloc)
    ELSE Returned(enhanceAnalysis(analyze(lang, file), file))

AnalyzerFound(found, file) ==
    IF found.threw THEN found
    ELSE IF found.value = "none" THEN Returned(UnsupportedLanguage(file.path))
    ELSE Analyzed(found.value, file)

\* the lambda of analyzeFile
AnalyzeFileBody(file) == AnalyzerFound(getAnalyzerForFile(file.path), file)

\* ErrorHandler::handleError: the count of the code grows by one
handleError(error_counts, code) ==
    [c \in (DOMAIN error_counts) \cup {code} |->
        IF c \in DOMAIN error_counts
        THEN error_counts[c] + (IF c = code THEN 1 ELSE 0)
        ELSE 1]

handleException(error_counts, e) == handleError(error_counts, e.code)

\* ErrorHandler::executeWithRecovery around a body that ended as r: an
\* AnalyzerException is recorded and re-thrown, anything else is recorded
\* under code 0 and replaced by an AnalyzerException of code 9999
RecoveryCounts(error_counts, r) ==
    IF ~r.threw THEN error_counts
    ELSE IF IsAnalyzerException(r.value) THEN handleException(error_counts, r.value)
    ELSE handleError(error_counts, 0)

executeWithRecovery(r) ==
    IF ~r.threw THEN r
    ELSE IF IsAnalyzerException(r.value) THEN r
    ELSE Thrown(UnknownAnalyzerException)

\* a build of analyzeFile without the test of the cancellation flag
analyzeFileEntry_unchecked(cancelled) == Returned(TRUE)

\* analyzeFile, lines 103-105: the test of the cancellation flag
analyzeFileEntry(cancelled) ==
    IF cancelled THEN Thrown(AnalysisCancelled) ELSE Returned(TRUE)

\* analyzeFile after that test
analyzeFileRun(file) == executeWithRecovery(AnalyzeFileBody(file))

----------------------------------------------------------------------------
(* Inputs of the manager: files and trees.  A tree is the sequence of the   *)
(* entries of the root in the order recursive_directory_iterator yields    *)
(* them.                                                                   *)

File(path, regular, readable, too_large, findings, ai) ==
    [path |-> path, regular |-> regular, readable |-> readable,
     too_large |-> too_large, findings |-> findings, ai |-> ai]

PathA == <<"d", "/", "a", ".", "c", "p", "p">>
PathB == <<"d", "/", "b", ".", "j", "s">>
PathC == <<"d", "/", "c", ".", "j", "a", "v", "a">>
PathE == <<"d", "/", "e", ".", "c", "p", "p">>
PathG == <<"d", "/", "g", ".", "c", "p", "p">>
PathS == <<"d", "/", "s">>
PathT == <<"d", "/", "n", ".", "t", "x", "t">>
PathU == <<"d", "/", "u", ".", "c", "p", "p">>
PathX == <<"d", "/", "x">>

Strcpy(path) ==
    <<Finding(path, "SECURITY_VULNERABILITY",
              "Potential security vulnerability detected", "CRITICAL", 1)>>

FileA == File(PathA, TRUE, TRUE, FALSE, Strcpy(PathA), FALSE)  \* a finding
FileB == File(PathB, TRUE, TRUE, FALSE, <<>>, TRUE)            \* JavaScript, with insight
FileC == File(PathC, TRUE, TRUE, FALSE, <<>>, FALSE)           \* Java
FileE == File(PathE, TRUE, TRUE, FALSE, <<>>, FALSE)           \* no finding
FileG == File(PathG, TRUE, TRUE, TRUE, <<>>, FALSE)            \* too large to read
DirS  == File(PathS, FALSE, TRUE, FALSE, <<>>, FALSE)          \* a directory
FileT == File(PathT, TRUE, TRUE, FALSE, <<>>, FALSE)           \* no analyzer
FileU == File(PathU, TRUE, FALSE, FALSE, <<>>, FALSE)          \* cannot be opened
FileX == File(PathX, TRUE, TRUE, FALSE, <<>>, FALSE)           \* path of 3 characters

BaseTrees ==
    {<<FileU, FileA, FileB, FileE>>,
     <<FileA, FileT, FileB, DirS>>,
     <<FileA, FileE, FileB, FileC>>,
     <<FileA, FileG, FileB, FileC>>,
     <<DirS, FileA, FileX, FileB>>}

Trees == {SubSeq(t, 1, n) : t \in BaseTrees, n \in 0..MaxFiles}

MapPut(m, k, v) == [x \in (DOMAIN m) \cup {k} |-> IF x = k THEN v ELSE m[x]]

----------------------------------------------------------------------------
(* cancelAnalysis and resetCancellation, called from another thread at any  *)
(* time                                                                    *)

Scanning == scan.pc \notin {"idle", "done"}

\* the files whose analysis has passed analyzeFile's test of the flag and has
\* not yet been stored or dropped
InFlight ==
    IF scan.op = "analyzeDirectoryParallel"
    THEN {workers[w].index + 1 :
             w \in {v \in 1..MaxWorkers : workers[v].pc \in {"inflight", "lock", "store"}}}
    ELSE IF scan.pc = "inflight" THEN {scan.i} ELSE {}

CancelAnalysis ==
    /\ scan.signals < MaxSignals
    /\ analysis_cancelled_' = TRUE
    /\ scan' = [scan EXCEPT !.signals = @ + 1,
                            !.cancel_during = @ \/ Scanning,
                            !.cancel_inflight = @ \cup InFlight]
    /\ UNCHANGED <<config_, analysis_cache_, metrics_, now, calls, ticks, last,
                   threads, alive, workers, callers, health, fixVars>>

ResetCancellation ==
    /\ scan.signals < MaxSignals
    /\ analysis_cancelled_' = FALSE
    /\ scan' = [scan EXCEPT !.signals = @ + 1]
    /\ UNCHANGED <<config_, analysis_cache_, metrics_, now, calls, ticks, last,
                   threads, alive, workers, callers, health, fixVars>>

\* what a step of a scan leaves alone
ScanFrame ==
    UNCHANGED <<config_, analysis_cache_, metrics_, now, calls, ticks, last,
                threads, alive, analysis_cancelled_, callers, health, fixVars>>

----------------------------------------------------------------------------
(* analyzeFile called on its own *)

AnalyzeFileReturn(entry, run) ==
    IF entry.threw THEN entry ELSE run

AnalyzeFile(file) ==
    /\ scan.pc = "idle"
    /\ scan' = [scan EXCEPT
          !.op = "analyzeFile", !.pc = "done", !.tree = <<file>>,
          !.started = IF analysis_cancelled_ THEN {} ELSE {1},
          !.error_counts_ =
              IF analysis_cancelled_ THEN @
              ELSE RecoveryCounts(@, AnalyzeFileBody(file)),
          !.threw = AnalyzeFileReturn(analyzeFileEntry(analysis_cancelled_),
                                      analyzeFileRun(file)).threw,
          !.ret = AnalyzeFileReturn(analyzeFileEntry(analysis_cancelled_),
                                    analyzeFileRun(file)).value]
    /\ UNCHANGED workers
    /\ ScanFrame

----------------------------------------------------------------------------
(* analyzeDirectory: the serial scan, one step per test of the flag and    *)
(* per file analysis                                                       *)

\* an exception leaves the loop: executeWithRecovery records it and throws
\* an AnalyzerException on, which the handler of analyzeDirectory records
SerialAbort(error_counts, e) ==
    handleException(RecoveryCounts(error_counts, Thrown(e)),
                    executeWithRecovery(Thrown(e)).value)

\* a build of analyzeDirectory whose handler lets the exception go on
DirectoryCatch_rethrow(e) == FALSE

\* line 161: catch (const AnalyzerException&), after which the map is returned
DirectoryCatch(e) == IsAnalyzerException(e)

\* whether analyzeDirectory ends by an exception when e leaves its loop
Propagates(e) == ~DirectoryCatch(executeWithRecovery(Thrown(e)).value)

AnalyzeDirectory(tree, root_ok) ==
    /\ scan.pc = "idle"
    /\ scan' = IF root_ok
               THEN [scan EXCEPT !.op = "analyzeDirectory", !.pc = "boundary",
                                 !.tree = tree, !.root_ok = TRUE, !.i = 1]
               ELSE [scan EXCEPT !.op = "analyzeDirectory", !.pc = "done",
                                 !.tree = <<>>, !.root_ok = FALSE,
                                 !.threw = Propagates(FilesystemError),
                                 !.error_counts_ = SerialAbort(@, FilesystemError)]
    /\ UNCHANGED workers
    /\ ScanFrame

\* lines 139-144: the next entry, the test of the flag, is_regular_file
SerialBoundary ==
    /\ scan.op = "analyzeDirectory"
    /\ scan.pc = "boundary"
    /\ scan' =
         IF scan.i > Len(scan.tree) THEN [scan EXCEPT !.pc = "done"]
         ELSE IF analysis_cancelled_
              THEN [scan EXCEPT !.pc = "done",
                                !.threw = Propagates(AnalysisCancelled),
                                !.error_counts_ = SerialAbort(@, AnalysisCancelled)]
         ELSE IF ~scan.tree[scan.i].regular THEN [scan EXCEPT !.i = @ + 1]
         ELSE [scan EXCEPT !.pc = "entry"]
    /\ UNCHANGED workers
    /\ ScanFrame

\* line 146 and analyzeFile's own test of the flag; its exception is caught
\* by the handler of line 153
SerialEntry ==
    /\ scan.op = "analyzeDirectory"
    /\ scan.pc = "entry"
    /\ scan' =
         IF analyzeFileEntry(analysis_cancelled_).threw
         THEN [scan EXCEPT !.pc = "boundary", !.i = @ + 1,
                  !.error_counts_ = handleException(@, AnalysisCancelled)]
         ELSE [scan EXCEPT !.pc = "inflight", !.started = @ \cup {scan.i}]
    /\ UNCHANGED workers
    /\ ScanFrame

\* the handlers of lines 150-156 catch FileSystemException and
\* AnalysisException only
CaughtPerFile(e) == e.class \in {"FileSystemException", "AnalysisException"}

SerialAnalyzed(file, r, counts) ==
    IF ~r.threw
    THEN [scan EXCEPT !.pc = "boundary", !.i = @ + 1,
             !.all_results = IF r.value # <<>> THEN MapPut(@, file.path, r.value)
                             ELSE @]
    ELSE IF CaughtPerFile(r.value)
    THEN [scan EXCEPT !.pc = "boundary", !.i = @ + 1,
             !.error_counts_ = handleException(counts, r.value)]
    ELSE [scan EXCEPT !.pc = "done", !.threw = Propagates(r.value),
             !.error_counts_ = SerialAbort(counts, r.value)]

\* lines 146-149: the analysis of the file and the insertion of its findings
SerialInflight ==
    /\ scan.op = "analyzeDirectory"
    /\ scan.pc = "inflight"
    /\ scan' = SerialAnalyzed(scan.tree[scan.i], analyzeFileRun(scan.tree[scan.i]),
                   RecoveryCounts(scan.error_counts_,
                                  AnalyzeFileBody(scan.tree[scan.i])))
    /\ UNCHANGED workers
    /\ ScanFrame

----------------------------------------------------------------------------
(* analyzeDirectoryParallel: the enumeration, then one step per statement  *)
(* of a worker that other threads can observe                              *)

\* line 180: is_regular_file() && getAnalyzerForFile(path)
Listed(entry) ==
    /\ entry.regular
    /\ ~getAnalyzerForFile(entry.path).threw
    /\ getAnalyzerForFile(entry.path).value # "none"

\* the enumeration ends in an exception when the lookup of an analyzer throws
EnumerationThrows(tree) ==
    \E k \in 1..Len(tree) :
        tree[k].regular /\ getAnalyzerForFile(tree[k].path).threw

Min(a, b) == IF a <= b THEN a ELSE b

\* lines 209-212
Launched(max_threads, files_to_analyze) ==
    [w \in 1..MaxWorkers |->
        IF w <= Min(max_threads, Len(files_to_analyze))
        THEN [NoWorker EXCEPT !.pc = "loop"] ELSE NoWorker]

AnalyzeDirectoryParallel(tree, root_ok, max_threads) ==
    /\ scan.pc = "idle"
    /\ IF root_ok /\ ~EnumerationThrows(tree)
       THEN /\ scan' = [scan EXCEPT
                  !.op = "analyzeDirectoryParallel", !.pc = "waiting",
                  !.tree = tree, !.root_ok = TRUE, !.max_threads = max_threads,
                  !.files_to_analyze = SelectSeq(tree, Listed),
                  !.current_index = 0, !.has_errors = FALSE]
            /\ workers' = Launched(max_threads, SelectSeq(tree, Listed))
       ELSE \* the handler of line 219
            /\ scan' = [scan EXCEPT
                  !.op = "analyzeDirectoryParallel", !.pc = "done",
                  !.tree = IF root_ok THEN tree ELSE <<>>, !.root_ok = root_ok,
                  !.max_threads = max_threads,
                  !.error_counts_ = handleError(@, 0)]
            /\ UNCHANGED workers
    /\ ScanFrame

\* line 190: while (!analysis_cancelled_ && !has_errors)
WorkerLoop(w) ==
    /\ workers[w].pc = "loop"
    /\ workers' = [workers EXCEPT ![w].pc =
                      IF ~analysis_cancelled_ /\ ~scan.has_errors
                      THEN "claim" ELSE "finished"]
    /\ UNCHANGED scan
    /\ ScanFrame

\* a fetch-and-add that loses its addition
FetchAdd_lost(current_index) == current_index

\* line 191: current_index++ on the atomic
FetchAdd(current_index) == current_index + 1

\* lines 191-192: the claim of an index and the test of the end of the list
WorkerClaim(w) ==
    /\ workers[w].pc = "claim"
    /\ scan' = [scan EXCEPT
          !.current_index = FetchAdd(@),
          !.claims = IF scan.current_index < Len(scan.files_to_analyze)
                     THEN Append(@, scan.current_index) ELSE @]
    /\ workers' = [workers EXCEPT
          ![w].index = scan.current_index,
          ![w].pc = IF scan.current_index >= Len(scan.files_to_analyze)
                    THEN "finished" ELSE "entry"]
    /\ ScanFrame

\* the handler of lines 200-204, for every std::exception
WorkerCaught(w, counts, e) ==
    /\ scan' = [scan EXCEPT !.has_errors = TRUE,
                            !.error_counts_ = handleError(counts, 0)]
    /\ workers' = [workers EXCEPT ![w].pc = "loop", ![w].caught = e]

WorkerFile(w) == scan.files_to_analyze[workers[w].index + 1]

\* line 195 and analyzeFile's own test of the flag
WorkerEntry(w) ==
    /\ workers[w].pc = "entry"
    /\ IF analyzeFileEntry(analysis_cancelled_).threw
       THEN WorkerCaught(w, scan.error_counts_, AnalysisCancelled)
       ELSE /\ scan' = [scan EXCEPT !.started = @ \cup {workers[w].index + 1}]
            /\ workers' = [workers EXCEPT ![w].pc = "inflight"]
    /\ ScanFrame

\* a build whose worker stores the findings of a file also when there are
\* none
WorkerAnalyzed_storeempty(w, r, counts) ==
    IF r.threw THEN WorkerCaught(w, counts, r.value)
    ELSE /\ scan' = [scan EXCEPT !.error_counts_ = counts]
         /\ workers' = [workers EXCEPT ![w].file_results = r.value, ![w].pc = "lock"]

WorkerAnalyzed(w, r, counts) ==
    IF r.threw THEN WorkerCaught(w, counts, r.value)
    ELSE /\ scan' = [scan EXCEPT !.error_counts_ = counts]
         /\ workers' = [workers EXCEPT
               ![w].file_results = r.value,
               ![w].pc = IF r.value # <<>> THEN "lock" ELSE "loop"]

\* lines 195-196: the analysis of the claimed file
WorkerInflight(w) ==
    /\ workers[w].pc = "inflight"
    /\ WorkerAnalyzed(w, analyzeFileRun(WorkerFile(w)),
                      RecoveryCounts(scan.error_counts_,
                                     AnalyzeFileBody(WorkerFile(w))))
    /\ ScanFrame

\* line 197: std::lock_guard on results_mutex
WorkerLock(w) ==
    /\ workers[w].pc = "lock"
    /\ scan.results_mutex = 0
    /\ scan' = [scan EXCEPT !.results_mutex = w]
    /\ workers' = [workers EXCEPT ![w].pc = "store"]
    /\ ScanFrame

\* line 198 and the release of the lock at the end of the block
WorkerStore(w) ==
    /\ workers[w].pc = "store"
    /\ scan' = [scan EXCEPT
          !.results_mutex = 0,
          !.all_results = MapPut(@, WorkerFile(w).path, workers[w].file_results)]
    /\ workers' = [workers EXCEPT ![w].pc = "loop", ![w].file_results = <<>>]
    /\ ScanFrame

\* lines 215-217: every future is waited for, then the map is returned
ParallelJoin ==
    /\ scan.op = "analyzeDirectoryParallel"
    /\ scan.pc = "waiting"
    /\ \A w \in 1..MaxWorkers : workers[w].pc \in {"unused", "finished"}
    /\ scan' = [scan EXCEPT !.pc = "done"]
    /\ UNCHANGED workers
    /\ ScanFrame

----------------------------------------------------------------------------
(* A directory scan with cancellation signals from another thread *)

InitScan == Constructed({DefaultConfig})

StartSerial == \E tree \in Trees, root_ok \in BOOLEAN : AnalyzeDirectory(tree, root_ok)

StartParallel ==
    \E tree \in Trees, root_ok \in BOOLEAN, max_threads \in 1..MaxWorkers :
        AnalyzeDirectoryParallel(tree, root_ok, max_threads)

WorkerStep ==
    \E w \in 1..MaxWorkers :
        \/ WorkerLoop(w)
        \/ WorkerClaim(w)
        \/ WorkerEntry(w)
        \/ WorkerInflight(w)
        \/ WorkerLock(w)
        \/ WorkerStore(w)

NextScan ==
    \/ StartSerial
    \/ SerialBoundary
    \/ SerialEntry
    \/ SerialInflight
    \/ StartParallel
    \/ WorkerStep
    \/ ParallelJoin
    \/ CancelAnalysis
    \/ ResetCancellation

SpecScan == InitScan /\ [][NextScan]_vars

----------------------------------------------------------------------------
(* analyzeDirectoryParallel without signals, its threads scheduled fairly:  *)
(* a worker that can take a step takes one, and the caller that waits for   *)
(* the futures returns once they are ready                                  *)

WorkerRun(w) ==
    \/ WorkerLoop(w)
    \/ WorkerClaim(w)
    \/ WorkerEntry(w)
    \/ WorkerInflight(w)
    \/ WorkerLock(w)
    \/ WorkerStore(w)

FairParallel ==
    /\ \A w \in 1..MaxWorkers : WF_vars(WorkerRun(w))
    /\ WF_vars(ParallelJoin)

NextParallel ==
    \/ StartParallel
    \/ WorkerStep
    \/ ParallelJoin

SpecParallel == InitScan /\ [][NextParallel]_vars /\ FairParallel

----------------------------------------------------------------------------
(* analyzeFile called on paths of every length and extension *)

JavaExtensions == <<<<".", "j", "a", "v", "a">>>>
JavaScriptExtensions ==
    <<<<".", "j", "s">>, <<".", "j", "s", "x">>, <<".", "t", "s">>,
      <<".", "t", "s", "x">>>>

Seqs(S, n) ==
    LET seqs[k \in 0..n] ==
            IF k = 0 THEN {<<>>}
            ELSE seqs[k - 1] \cup {Append(q, x) : q \in seqs[k - 1], x \in S}
    IN seqs[n]

Stems == Seqs({"a", "/"}, MaxStem)

Tails ==
    {<<>>, <<"x">>, <<".", "m", "d">>, <<".", "t", "x", "t">>}
        \cup {CppExtensions[k] : k \in {1, 2, 4, 5}}
        \cup {GoExtensions[k] : k \in DOMAIN GoExtensions}
        \cup {JavaExtensions[k] : k \in DOMAIN JavaExtensions}
        \cup {JavaScriptExtensions[k] : k \in DOMAIN JavaScriptExtensions}
        \cup {PythonExtensions[k] : k \in {1, 2}}

ProbePaths == {stem \o tail : stem \in Stems, tail \in Tails}

ProbeFiles ==
    {File(path, TRUE, readable, FALSE, <<>>, FALSE) :
        path \in ProbePaths, readable \in BOOLEAN}

InitFile == Constructed({DefaultConfig})

FileCall == \E file \in ProbeFiles : AnalyzeFile(file)

NextFile ==
    \/ FileCall
    \/ CancelAnalysis
    \/ ResetCancellation

SpecFile == InitFile /\ [][NextFile]_vars

----------------------------------------------------------------------------
(* Threads inside the engine.  A thread takes one step per lock operation, *)
(* per critical section, per group of reads of config_ outside a lock and  *)
(* per subprocess.                                                         *)

Mutexes == {"cache_mutex_", "metrics_mutex_", "state_mutex_"}

Free(m) == \A t \in 1..MaxCallers : m \notin callers[t].held

\* the constructor and the destructor of std::lock_guard
Lock(held, m) == held \cup {m}
Unlock(held, m) == held \ {m}

At(t, pc) == callers[t].pc = pc

Goto(t, pc) == callers' = [callers EXCEPT ![t].pc = pc]

Acquire(t, m, pc) ==
    /\ Free(m)
    /\ callers' = [callers EXCEPT ![t].held = Lock(@, m), ![t].pc = pc]

Return(t) == callers' = [callers EXCEPT ![t] = NoCaller]

EngineFrame == UNCHANGED <<now, ticks, last, threads, alive, managerVars, fixVars>>

\* a step that changes nothing but the thread itself
Local == UNCHANGED <<config_, analysis_cache_, metrics_, health, calls>> /\ EngineFrame

\* the configurations the threads run with and pass to updateConfiguration
CallerConfigA ==
    [python_executable |-> <<"p", "y">>, ai_service_path |-> <<"s">>,
     model_type |-> <<"m">>, timeout_seconds |-> 30, max_retries |-> 0,
     enable_caching |-> TRUE, enable_learning |-> TRUE, cache_max_size |-> 1]
CallerConfigB ==
    [python_executable |-> <<"p", "y", "3">>, ai_service_path |-> <<"s">>,
     model_type |-> <<"n">>, timeout_seconds |-> 30, max_retries |-> 0,
     enable_caching |-> FALSE, enable_learning |-> TRUE, cache_max_size |-> 2]
CallerConfigs == {CallerConfigA, CallerConfigB}

\* what the service answers a thread's request with
CallerOutcomes ==
    {Outcome("exit_zero", OkDoc1), Outcome("popen_fail", JsonMalformed)}

\* a thread enters a public function
Call(t, op, pc, arg) ==
    /\ alive
    /\ At(t, "idle")
    /\ calls < MaxOps
    /\ calls' = calls + 1
    /\ callers' = [callers EXCEPT ![t] = [NoCaller EXCEPT !.op = op, !.pc = pc,
                                                          !.arg = arg]]
    /\ UNCHANGED <<config_, analysis_cache_, metrics_, health>>
    /\ EngineFrame

----------------------------------------------------------------------------
(* analyzeCode("a", "c", "") step by step *)

CallAnalyzeCode(t) == Call(t, "analyzeCode", "ac_caching", DefaultConfig)

CallerKey(cfg) ==
    generateCacheKey(sanitizeInput(<<"a">>), sanitizeInput(<<"c">>),
                     sanitizeInput(<<>>), cfg)

\* line 123: config_.enable_caching
AcCaching(t) ==
    /\ At(t, "ac_caching")
    /\ Goto(t, IF config_.enable_caching THEN "ac_key" ELSE "ac_payload")
    /\ Local

\* line 124: generateCacheKey reads config_.model_type
AcKey(t) ==
    /\ At(t, "ac_key")
    /\ callers' = [callers EXCEPT ![t].key = CallerKey(config_),
                                  ![t].pc = "ac_lookup_lock"]
    /\ Local

\* line 377
AcLookupLock(t) ==
    /\ At(t, "ac_lookup_lock")
    /\ Acquire(t, "cache_mutex_", "ac_lookup")
    /\ Local

CallerLooked(t) == getFromCache(analysis_cache_, callers[t].key, now)

\* lines 379-390
AcLookup(t) ==
    /\ At(t, "ac_lookup")
    /\ analysis_cache_' = CallerLooked(t).cache
    /\ callers' = [callers EXCEPT
          ![t].held = Unlock(@, "cache_mutex_"),
          ![t].result = CallerLooked(t).value,
          ![t].pc = IF CallerLooked(t).has_value THEN "ac_hit_lock" ELSE "ac_miss_lock"]
    /\ UNCHANGED <<config_, metrics_, health, calls>>
    /\ EngineFrame

\* line 131: updateMetrics, line 611
AcHitLock(t) ==
    /\ At(t, "ac_hit_lock")
    /\ Acquire(t, "metrics_mutex_", "ac_hit")
    /\ Local

\* lines 613-625
AcHit(t) ==
    /\ At(t, "ac_hit")
    /\ metrics_' = updateMetrics(metrics_, 0, TRUE)
    /\ callers' = [callers EXCEPT ![t].held = Unlock(@, "metrics_mutex_"),
                                  ![t].pc = "ac_hits_lock"]
    /\ UNCHANGED <<config_, analysis_cache_, health, calls>>
    /\ EngineFrame

\* line 134
AcHitsLock(t) ==
    /\ At(t, "ac_hits_lock")
    /\ Acquire(t, "metrics_mutex_", "ac_hits")
    /\ Local

\* lines 135-139
AcHits(t) ==
    /\ At(t, "ac_hits")
    /\ metrics_' = [metrics_ EXCEPT !.cache_hits = @ + 1]
    /\ Return(t)
    /\ UNCHANGED <<config_, analysis_cache_, health, calls>>
    /\ EngineFrame

\* line 143
AcMissLock(t) ==
    /\ At(t, "ac_miss_lock")
    /\ Acquire(t, "metrics_mutex_", "ac_miss")
    /\ Local

\* lines 144-145
AcMiss(t) ==
    /\ At(t, "ac_miss")
    /\ metrics_' = [metrics_ EXCEPT !.cache_misses = @ + 1]
    /\ callers' = [callers EXCEPT ![t].held = Unlock(@, "metrics_mutex_"),
                                  ![t].pc = "ac_payload"]
    /\ UNCHANGED <<config_, analysis_cache_, health, calls>>
    /\ EngineFrame

\* line 153: config_.max_retries; lines 213, 232-233: config_.model_type,
\* config_.python_executable, config_.ai_service_path
AcPayload(t) ==
    /\ At(t, "ac_payload")
    /\ callers' = [callers EXCEPT ![t].arg = config_, ![t].pc = "ac_service"]
    /\ Local

\* lines 242-257: the subprocess runs and ends; lines 156-160
AcService(t, outcome) ==
    /\ At(t, "ac_service")
    /\ callers' = [callers EXCEPT
          ![t].result = Timed(executeWithRetry(<<outcome>>, callers[t].arg.max_retries)),
          ![t].pc = "ac_store_test"]
    /\ Local

\* lines 163-164: config_.enable_caching, then config_.model_type
AcStoreTest(t) ==
    /\ At(t, "ac_store_test")
    /\ callers' = [callers EXCEPT
          ![t].key = IF shouldCache(callers[t].result, config_)
                     THEN CallerKey(config_) ELSE @,
          ![t].pc = IF shouldCache(callers[t].result, config_)
                    THEN "ac_store_lock" ELSE "ac_learning"]
    /\ Local

\* line 395
AcStoreLock(t) ==
    /\ At(t, "ac_store_lock")
    /\ Acquire(t, "cache_mutex_", "ac_store")
    /\ Local

\* lines 397-409: config_.cache_max_size is read under cache_mutex_
AcStore(t) ==
    /\ At(t, "ac_store")
    /\ analysis_cache_' \in storeInCache(analysis_cache_, callers[t].key,
                                         callers[t].result, now, config_)
    /\ callers' = [callers EXCEPT ![t].held = Unlock(@, "cache_mutex_"),
                                  ![t].pc = "ac_learning"]
    /\ UNCHANGED <<config_, metrics_, health, calls>>
    /\ EngineFrame

\* line 169: config_.enable_learning
AcLearning(t) ==
    /\ At(t, "ac_learning")
    /\ Goto(t, "ac_metrics_lock")
    /\ Local

\* line 174: updateMetrics, line 611
AcMetricsLock(t) ==
    /\ At(t, "ac_metrics_lock")
    /\ Acquire(t, "metrics_mutex_", "ac_metrics")
    /\ Local

\* lines 613-625, line 176
AcMetrics(t) ==
    /\ At(t, "ac_metrics")
    /\ metrics_' = updateMetrics(metrics_, callers[t].result.processing_time,
                                 callers[t].result.success)
    /\ Return(t)
    /\ UNCHANGED <<config_, analysis_cache_, health, calls>>
    /\ EngineFrame

AnalyzeCodeStep(t) ==
    \/ AcCaching(t)
    \/ AcKey(t)
    \/ AcLookupLock(t)
    \/ AcLookup(t)
    \/ AcHitLock(t)
    \/ AcHit(t)
    \/ AcHitsLock(t)
    \/ AcHits(t)
    \/ AcMissLock(t)
    \/ AcMiss(t)
    \/ AcPayload(t)
    \/ \E outcome \in CallerOutcomes : AcService(t, outcome)
    \/ AcStoreTest(t)
    \/ AcStoreLock(t)
    \/ AcStore(t)
    \/ AcLearning(t)
    \/ AcMetricsLock(t)
    \/ AcMetrics(t)

----------------------------------------------------------------------------
(* isServiceAvailable step by step *)

CallIsServiceAvailable(t) == Call(t, "isServiceAvailable", "hc_lock", DefaultConfig)

\* line 514
HcLock(t) ==
    /\ At(t, "hc_lock")
    /\ Acquire(t, "state_mutex_", "hc_check")
    /\ Local

\* a build whose first lock_guard lives to the end of the function
EndOfScope_kept(held) == held

\* line 518: the block of the first lock_guard ends
EndOfScope(held) == Unlock(held, "state_mutex_")

\* lines 515-518
HcCheck(t) ==
    /\ At(t, "hc_check")
    /\ IF health.fresh
       THEN Return(t)
       ELSE callers' = [callers EXCEPT ![t].held = EndOfScope(@), ![t].pc = "hc_cmd"]
    /\ Local

\* line 522: config_.python_executable
HcCmd(t) ==
    /\ At(t, "hc_cmd")
    /\ callers' = [callers EXCEPT ![t].arg = config_, ![t].pc = "hc_probe"]
    /\ Local

\* lines 526-536: the probe runs and ends; popen may fail
HcProbe(t, started, available) ==
    /\ At(t, "hc_probe")
    /\ IF started
       THEN callers' = [callers EXCEPT ![t].available = available,
                                       ![t].pc = "hc_lock2"]
       ELSE callers' = [callers EXCEPT ![t] = [NoCaller EXCEPT !.held = callers[t].held]]
    /\ Local

\* line 538
HcLock2(t) ==
    /\ At(t, "hc_lock2")
    /\ Acquire(t, "state_mutex_", "hc_update")
    /\ Local

\* lines 539-542
HcUpdate(t) ==
    /\ At(t, "hc_update")
    /\ health' = [service_available_ |-> callers[t].available, fresh |-> TRUE,
                  probed |-> TRUE]
    /\ Return(t)
    /\ UNCHANGED <<config_, analysis_cache_, metrics_, calls>>
    /\ EngineFrame

IsServiceAvailableStep(t) ==
    \/ HcLock(t)
    \/ HcCheck(t)
    \/ HcCmd(t)
    \/ \E started \in BOOLEAN, available \in BOOLEAN : HcProbe(t, started, available)
    \/ HcLock2(t)
    \/ HcUpdate(t)

\* HEALTH_CHECK_INTERVAL passes since last_health_check_
HealthIntervalPasses ==
    /\ health.fresh
    /\ health' = [health EXCEPT !.fresh = FALSE]
    /\ UNCHANGED <<config_, analysis_cache_, metrics_, calls, callers>>
    /\ EngineFrame

----------------------------------------------------------------------------
(* updateConfiguration, getConfiguration, getPerformanceMetrics *)

CallUpdateConfiguration(t, config) ==
    Call(t, "updateConfiguration", "uc_validate", config)

\* lines 441-444
UcValidate(t) ==
    /\ At(t, "uc_validate")
    /\ IF validate(callers[t].arg) THEN Goto(t, "uc_lock") ELSE Return(t)
    /\ Local

\* line 446
UcLock(t) ==
    /\ At(t, "uc_lock")
    /\ Acquire(t, "state_mutex_", "uc_strings")
    /\ Local

\* line 447, config_ = config: the copy assignment assigns member by member,
\* the three strings first
UcStrings(t) ==
    /\ At(t, "uc_strings")
    /\ config_' = [config_ EXCEPT
          !.python_executable = callers[t].arg.python_executable,
          !.ai_service_path = callers[t].arg.ai_service_path,
          !.model_type = callers[t].arg.model_type]
    /\ Goto(t, "uc_rest")
    /\ UNCHANGED <<analysis_cache_, metrics_, health, calls>>
    /\ EngineFrame

\* line 447, the remaining members; lines 449-450
UcRest(t) ==
    /\ At(t, "uc_rest")
    /\ config_' = callers[t].arg
    /\ Return(t)
    /\ UNCHANGED <<analysis_cache_, metrics_, health, calls>>
    /\ EngineFrame

CallGetConfiguration(t) == Call(t, "getConfiguration", "gc_lock", DefaultConfig)

\* line 455
GcLock(t) ==
    /\ At(t, "gc_lock")
    /\ Acquire(t, "state_mutex_", "gc_copy")
    /\ Local

\* line 456
GcCopy(t) ==
    /\ At(t, "gc_copy")
    /\ Return(t)
    /\ Local

CallGetPerformanceMetrics(t) ==
    Call(t, "getPerformanceMetrics", "pm_lock", DefaultConfig)

\* line 489
PmLock(t) ==
    /\ At(t, "pm_lock")
    /\ Acquire(t, "metrics_mutex_", "pm_read")
    /\ Local

\* lines 491-506
PmRead(t) ==
    /\ At(t, "pm_read")
    /\ Return(t)
    /\ Local

ConfigurationStep(t) ==
    \/ UcValidate(t)
    \/ UcLock(t)
    \/ UcStrings(t)
    \/ UcRest(t)
    \/ GcLock(t)
    \/ GcCopy(t)

MetricsStep(t) == PmLock(t) \/ PmRead(t)

----------------------------------------------------------------------------
(* Threads calling into one engine at the same time *)

InitCallers == Constructed({CallerConfigA})

CallStep ==
    \E t \in 1..MaxCallers :
        \/ CallAnalyzeCode(t)
        \/ CallIsServiceAvailable(t)
        \/ \E config \in CallerConfigs \cup {BadTimeoutConfig} :
              CallUpdateConfiguration(t, config)
        \/ CallGetConfiguration(t)
        \/ CallGetPerformanceMetrics(t)

NextCallers ==
    \/ CallStep
    \/ \E t \in 1..MaxCallers : AnalyzeCodeStep(t)
    \/ \E t \in 1..MaxCallers : IsServiceAvailableStep(t)
    \/ \E t \in 1..MaxCallers : ConfigurationStep(t)
    \/ \E t \in 1..MaxCallers : MetricsStep(t)
    \/ HealthIntervalPasses

SpecCallers == InitCallers /\ [][NextCallers]_vars

----------------------------------------------------------------------------
(* executePythonService called by several threads at the same time.  The   *)
(* system clock is read for each of the two names; it may or may not have  *)
(* advanced between two readings.                                          *)

MaxClock == 2

ServiceFrame ==
    UNCHANGED <<config_, analysis_cache_, metrics_, now, ticks, last, threads,
                alive, managerVars, callers, health, disk, fix>>

\* "/tmp/codezilla_ai_input_" + to_string(count) + ".json", and the same
\* with "output"
TempName(kind, count) == <<kind, count>>

MapRemove(m, k) == [x \in (DOMAIN m) \ {k} |-> m[x]]

RunAt(t, pc) == runs.th[t].pc = pc

\* a thread enters executePythonService with its own request
ServiceBegin(t) ==
    /\ RunAt(t, "idle")
    /\ calls < MaxOps
    /\ calls' = calls + 1
    /\ runs' = [runs EXCEPT !.th[t] = [NoRun EXCEPT !.pc = "name_input"]]
    /\ ServiceFrame

\* lines 217-218
ServiceNameInput(t) ==
    /\ RunAt(t, "name_input")
    /\ runs' = [runs EXCEPT !.th[t].temp_input = TempName("input", runs.clock),
                            !.th[t].pc = "name_output"]
    /\ UNCHANGED calls
    /\ ServiceFrame

\* lines 219-220
ServiceNameOutput(t) ==
    /\ RunAt(t, "name_output")
    /\ runs' = [runs EXCEPT !.th[t].temp_output = TempName("output", runs.clock),
                            !.th[t].pc = "write"]
    /\ UNCHANGED calls
    /\ ServiceFrame

\* lines 222-228: the request is written, over whatever the name held
ServiceWrite(t) ==
    /\ RunAt(t, "write")
    /\ runs' = [runs EXCEPT !.tmp = MapPut(@, runs.th[t].temp_input, t),
                            !.th[t].pc = "process"]
    /\ UNCHANGED calls
    /\ ServiceFrame

\* lines 240-257: the service reads the request document and writes the
\* response to the request it found there; without a request document it
\* writes nothing
ServiceProcess(t) ==
    /\ RunAt(t, "process")
    /\ runs' = [runs EXCEPT
          !.tmp = IF runs.th[t].temp_input \in DOMAIN runs.tmp
                  THEN MapPut(@, runs.th[t].temp_output, runs.tmp[runs.th[t].temp_input])
                  ELSE @,
          !.th[t].pc = "read"]
    /\ UNCHANGED calls
    /\ ServiceFrame

\* lines 260-275: the response document is read and both documents are
\* removed; without a response document the request document is removed
ServiceRead(t) ==
    /\ RunAt(t, "read")
    /\ runs' = IF runs.th[t].temp_output \in DOMAIN runs.tmp
               THEN [runs EXCEPT
                       !.tmp = MapRemove(MapRemove(@, runs.th[t].temp_input),
                                         runs.th[t].temp_output),
                       !.th[t].read = runs.tmp[runs.th[t].temp_output],
                       !.th[t].pc = "idle"]
               ELSE [runs EXCEPT
                       !.tmp = MapRemove(@, runs.th[t].temp_input),
                       !.th[t].error_message = "AI service did not produce output",
                       !.th[t].pc = "idle"]
    /\ UNCHANGED calls
    /\ ServiceFrame

\* the system clock advances by one unit of its period
ClockPasses ==
    /\ runs.clock < MaxClock
    /\ runs' = [runs EXCEPT !.clock = @ + 1]
    /\ UNCHANGED calls
    /\ ServiceFrame

ServiceStep(t) ==
    \/ ServiceBegin(t)
    \/ ServiceNameInput(t)
    \/ ServiceNameOutput(t)
    \/ ServiceWrite(t)
    \/ ServiceProcess(t)
    \/ ServiceRead(t)

NextService ==
    \/ \E t \in 1..MaxCallers : ServiceStep(t)
    \/ ClockPasses

SpecService == InitCallers /\ [][NextService]_vars

----------------------------------------------------------------------------
(* The fingerprints of requests: one caller, a service that always         *)
(* succeeds, a cache with room for two entries, requests that differ in    *)
(* their code or in their file path                                        *)

KeyPaths == {<<>>, <<"p">>, <<"q">>, <<NUL, "p">>}

\* requests that differ in their code or in their file path, requests whose
\* code or language is nothing but null bytes, and two requests with the
\* separator inside a field
KeyRequests ==
    {<<code, <<"c">>, file_path>> : code \in {<<"a">>, <<"b">>},
                                    file_path \in KeyPaths}
    \cup {<<<<NUL>>, <<"c">>, <<>>>>,
          <<<<"a">>, <<NUL, NUL>>, <<>>>>,
          <<<<"a", "|", "b">>, <<"c">>, <<>>>>,
          <<<<"a">>, <<"b", "|", "c">>, <<>>>>}

KeyConfigs ==
    {[DefaultConfig EXCEPT !.model_type = model, !.max_retries = 0,
                           !.cache_max_size = 2] : model \in {<<"m">>, <<"n">>}}

KeyScripts == {<<Outcome("exit_zero", OkDoc1)>>}

InitKey == Constructed(KeyConfigs)

KeyAnalyze ==
    \E rq \in KeyRequests : AnalyzeCode(rq[1], rq[2], rq[3], KeyScripts)

NextKey == KeyAnalyze

SpecKey == InitKey /\ [][NextKey]_vars

----------------------------------------------------------------------------
(* Source files as bytes, and the fixes of the analyzers.  A file is a     *)
(* sequence of one-character strings, LF standing for the line feed; a     *)
(* file marked too_large cannot be held in memory.                         *)

LF == "LF"

SourceFile(bytes, too_large) == [bytes |-> bytes, too_large |-> too_large]

\* the positions of the line feeds, and of the k-th of them (0 for k = 0)
LineFeeds(bytes) == {i \in 1..Len(bytes) : bytes[i] = LF}

LineFeedAt(bytes, k) ==
    IF k = 0 THEN 0
    ELSE CHOOSE i \in LineFeeds(bytes) :
            Cardinality({j \in LineFeeds(bytes) : j <= i}) = k

\* the loop `while (std::getline(file, line)) lines.push_back(line)`: one
\* line before each line feed, and the text after the last line feed when
\* it is not empty
ReadLines(bytes) ==
    [k \in 1..(Cardinality(LineFeeds(bytes))
                 + (IF LineFeedAt(bytes, Cardinality(LineFeeds(bytes))) < Len(bytes)
                    THEN 1 ELSE 0)) |->
        IF k <= Cardinality(LineFeeds(bytes))
        THEN SubSeq(bytes, LineFeedAt(bytes, k - 1) + 1, LineFeedAt(bytes, k) - 1)
        ELSE SubSeq(bytes, LineFeedAt(bytes, k - 1) + 1, Len(bytes))]

\* the write-back loop: the lines with a line feed between them and none
\* after the last
WriteLines(lines) ==
    LET wr[k \in 0..Len(lines)] ==
            IF k = 0 THEN <<>>
            ELSE IF k = Len(lines) THEN wr[k - 1] \o lines[k]
            ELSE wr[k - 1] \o lines[k] \o <<LF>>
    IN wr[Len(lines)]

\* std::string::find(pattern) != npos
Contains(line, pattern) ==
    \E i \in 1..(Len(line) - Len(pattern) + 1) :
        SubSeq(line, i, i + Len(pattern) - 1) = pattern

Import == <<"i", "m", "p", "o", "r", "t">>

AutoRemoved ==
    <<"A", "u", "t", "o", "-", "r", "e", "m", "o", "v", "e", "d", ":", " ",
      "u", "n", "u", "s", "e", "d", " ">> \o Import

\* "// " + line + "  // Auto-removed: unused import", and the same with "# "
Commented(mark, line) == mark \o <<" ">> \o line \o <<" ", " ">> \o mark \o <<" ">> \o AutoRemoved

\* lines with the line of index idx (from 0) replaced
LineSet(lines, idx, line) == [lines EXCEPT ![idx + 1] = line]

\* canAutoFix of the analyzer registered under `lang`
canAutoFix(lang, rule_id) ==
    CASE lang = "cpp" ->
            rule_id \in {"MISSING_SEMICOLON", "BRACE_STYLE", "INCLUDE_GUARD_MISSING",
                         "SECURITY_VULNERABILITY"}
      [] lang = "go" ->
            rule_id \in {"MISSING_PACKAGE", "UNUSED_IMPORT", "MISSING_IMPORT",
                         "INCORRECT_FORMATTING"}
      [] lang = "python" ->
            rule_id \in {"MISSING_IMPORT", "UNUSED_IMPORT", "MISSING_WHITESPACE",
                         "EXTRA_WHITESPACE", "TRAILING_WHITESPACE"}
      [] OTHER -> FALSE

\* CppAnalyzer::applyFix, the edit of the lines
CppEdit(lines, rule_id, line_number) ==
    IF /\ rule_id = "MISSING_SEMICOLON"
       /\ line_number > 0
       /\ line_number - 1 < Len(lines)
       /\ lines[line_number] # <<>>
       /\ lines[line_number][Len(lines[line_number])] \notin {";", "{"}
    THEN LineSet(lines, line_number - 1, Append(lines[line_number], ";"))
    ELSE lines

\* GoAnalyzer::extractPackageName
LastSlash(file_path) ==
    IF \E i \in 1..Len(file_path) : file_path[i] \in {"/", "\\"}
    THEN CHOOSE i \in 1..Len(file_path) :
            /\ file_path[i] \in {"/", "\\"}
            /\ \A j \in (i + 1)..Len(file_path) : file_path[j] \notin {"/", "\\"}
    ELSE 0

extractPackageName(file_path) ==
    IF LastSlash(file_path) = 0 THEN <<"m", "a", "i", "n">>
    ELSE SubSeq(file_path, LastSlash(SubSeq(file_path, 1, LastSlash(file_path) - 1)) + 1,
                LastSlash(file_path) - 1)

Package == <<"p", "a", "c", "k", "a", "g", "e", " ">>

\* GoAnalyzer::applyFix, the edit of the lines
GoEdit(lines, file_path, rule_id, line_number) ==
    IF rule_id = "MISSING_PACKAGE" /\ line_number = 1
    THEN IF extractPackageName(file_path) # <<>>
         THEN <<Package \o extractPackageName(file_path)>> \o lines
         ELSE lines
    ELSE IF /\ rule_id = "UNUSED_IMPORT"
            /\ line_number > 0
            /\ line_number - 1 < Len(lines)
            /\ Contains(lines[line_number], Import)
    THEN LineSet(lines, line_number - 1, Commented(<<"/", "/">>, lines[line_number]))
    ELSE lines

\* `modified` of GoAnalyzer::applyFix
GoModified(lines, file_path, rule_id, line_number) ==
    \/ /\ rule_id = "MISSING_PACKAGE"
       /\ line_number = 1
       /\ extractPackageName(file_path) # <<>>
    \/ /\ ~(rule_id = "MISSING_PACKAGE" /\ line_number = 1)
       /\ rule_id = "UNUSED_IMPORT"
       /\ line_number > 0
       /\ line_number - 1 < Len(lines)
       /\ Contains(lines[line_number], Import)

Blank == {" ", "TAB", LF, "CR"}

\* PythonAnalyzer::trim_right
trim_right(str) ==
    IF \A i \in 1..Len(str) : str[i] \in Blank THEN <<>>
    ELSE SubSeq(str, 1, CHOOSE i \in 1..Len(str) :
                            /\ str[i] \notin Blank
                            /\ \A j \in (i + 1)..Len(str) : str[j] \in Blank)

\* PythonAnalyzer::applyFix, the edit of the lines.  The two patterns of
\* MISSING_WHITESPACE match a backslash followed by the letter w next to an
\* operator; a line without a backslash is left as it is.
PythonEdit(lines, rule_id, line_number) ==
    IF line_number > 0 /\ line_number <= Len(lines)
    THEN IF rule_id = "TRAILING_WHITESPACE"
         THEN LineSet(lines, line_number - 1, trim_right(lines[line_number]))
         ELSE IF rule_id = "MISSING_WHITESPACE"
         THEN lines
         ELSE IF rule_id = "UNUSED_IMPORT" /\ Contains(lines[line_number], Import)
         THEN LineSet(lines, line_number - 1, Commented(<<"#">>, lines[line_number]))
         ELSE lines
    ELSE lines

Written(files, file_path, lines) ==
    [files EXCEPT ![file_path] = SourceFile(WriteLines(lines), FALSE)]

\* what a call of applyFix did: its return value and the files after it
Fixed(ret, files) == [ret |-> ret, files |-> files]

\* a build of the Go analyzer that writes the lines back before it tests
\* `modified`
GoWriteBack_always(files, file_path, lines, modified) ==
    Fixed(modified, Written(files, file_path, lines))

\* GoAnalyzer::applyFix, lines 153-163 and 171
GoWriteBack(files, file_path, lines, modified) ==
    IF modified THEN Fixed(TRUE, Written(files, file_path, lines))
    ELSE Fixed(FALSE, files)

\* applyFix(file_path, result) of the analyzer registered under `lang`; the
\* analyzers without one inherit BaseAnalyzer's
applyFix(lang, files, file_path, rule_id, line_number) ==
    IF ~canAutoFix(lang, rule_id) THEN Fixed(FALSE, files)
    ELSE IF file_path \notin DOMAIN files THEN Fixed(FALSE, files)
    ELSE IF files[file_path].too_large THEN Fixed(FALSE, files)
    ELSE IF lang = "cpp"
    THEN Fixed(TRUE, Written(files, file_path,
                             CppEdit(ReadLines(files[file_path].bytes),
                                     rule_id, line_number)))
    ELSE IF lang = "go"
    THEN GoWriteBack(files, file_path,
                     GoEdit(ReadLines(files[file_path].bytes), file_path,
                            rule_id, line_number),
                     GoModified(ReadLines(files[file_path].bytes), file_path,
                                rule_id, line_number))
    ELSE Fixed(TRUE, Written(files, file_path,
                             PythonEdit(ReadLines(files[file_path].bytes),
                                        rule_id, line_number)))

\* applyFix(file_path, result, ai_suggested_fix): CppAnalyzer's override and
\* BaseAnalyzer's default
applyFixAi(lang, files, file_path, rule_id, line_number, ai_suggested_fix) ==
    IF lang = "cpp"
    THEN IF rule_id = "SECURITY_VULNERABILITY" /\ ai_suggested_fix # <<>>
         THEN Fixed(FALSE, files)
         ELSE applyFix(lang, files, file_path, rule_id, line_number)
    ELSE IF ai_suggested_fix = <<>>
    THEN applyFix(lang, files, file_path, rule_id, line_number)
    ELSE Fixed(FALSE, files)

----------------------------------------------------------------------------
(* applyFix called on the analyzer of a file *)

MaxFixes == 2

FixFrame ==
    UNCHANGED <<config_, analysis_cache_, metrics_, now, ticks, last, threads,
                alive, managerVars, callers, health, runs>>

ApplyFix(file_path, rule_id, line_number, ai_suggested_fix) ==
    /\ calls < MaxFixes
    /\ ~getAnalyzerForFile(file_path).threw
    /\ \E f \in {applyFixAi(getAnalyzerForFile(file_path).value, disk, file_path,
                            rule_id, line_number, ai_suggested_fix)} :
          /\ disk' = f.files
          /\ fix' = [NoFix EXCEPT !.op = "applyFix",
                                  !.lang = getAnalyzerForFile(file_path).value,
                                  !.file_path = file_path, !.rule_id = rule_id,
                                  !.line_number = line_number,
                                  !.ai_suggested_fix = ai_suggested_fix,
                                  !.ret = f.ret, !.before = disk]
    /\ calls' = calls + 1
    /\ FixFrame

----------------------------------------------------------------------------
(* applyAutoFixes.  ai_available is ai_engine_ && ai_engine_->isAvailable(), *)
(* suggestion what suggestFixes answers.                                    *)

AutoFixStart(files) ==
    [files |-> files, processed |-> {}, fixes_applied |-> 0, total_fixable |-> 0,
     threw |-> FALSE]

\* lines 239-246: the whole file is read for the engine
ContextThrows(files, result, ai_available) ==
    /\ ai_available
    /\ result.rule_id = "SECURITY_VULNERABILITY"
    /\ result.file_path \in DOMAIN files
    /\ files[result.file_path].too_large

Suggested(result, ai_available, suggestion) ==
    IF ai_available /\ result.rule_id = "SECURITY_VULNERABILITY"
    THEN suggestion
    ELSE <<>>

\* lines 248-250
AutoFixApply(st, f) ==
    [st EXCEPT !.files = f.files,
               !.fixes_applied = IF f.ret THEN @ + 1 ELSE @]

\* the body of the loop for the k-th finding
AutoFixBody(st, k, result, ai_available, suggestion) ==
    IF st.threw THEN st
    ELSE IF getAnalyzerForFile(result.file_path).threw
    THEN [st EXCEPT !.processed = @ \cup {k}, !.threw = TRUE]
    ELSE IF \/ getAnalyzerForFile(result.file_path).value = "none"
            \/ ~canAutoFix(getAnalyzerForFile(result.file_path).value, result.rule_id)
    THEN [st EXCEPT !.processed = @ \cup {k}]
    ELSE IF ContextThrows(st.files, result, ai_available)
    THEN [st EXCEPT !.processed = @ \cup {k}, !.total_fixable = @ + 1,
                    !.threw = TRUE]
    ELSE AutoFixApply([st EXCEPT !.processed = @ \cup {k}, !.total_fixable = @ + 1],
                      applyFixAi(getAnalyzerForFile(result.file_path).value,
                                 st.files, result.file_path, result.rule_id,
                                 result.line_number,
                                 Suggested(result, ai_available, suggestion)))

\* the loop of lines 233-252 inside executeWithRecovery
AutoFixLoop(files, results, ai_available, suggestion) ==
    LET loop[k \in 0..Len(results)] ==
            IF k = 0 THEN AutoFixStart(files)
            ELSE AutoFixBody(loop[k - 1], k, results[k], ai_available, suggestion)
    IN loop[Len(results)]

\* lines 254-261
AutoFixReturn(st) == IF st.threw THEN FALSE ELSE st.fixes_applied > 0

MaxAutoFixes == 1

ApplyAutoFixes(results, ai_available, suggestion) ==
    /\ calls < MaxAutoFixes
    /\ \E st \in {AutoFixLoop(disk, results, ai_available, suggestion)} :
          /\ disk' = st.files
          /\ fix' = [NoFix EXCEPT !.op = "applyAutoFixes", !.results = results,
                                  !.processed = st.processed,
                                  !.fixes_applied = st.fixes_applied,
                                  !.total_fixable = st.total_fixable,
                                  !.ret = AutoFixReturn(st), !.before = disk]
    /\ calls' = calls + 1
    /\ FixFrame

----------------------------------------------------------------------------
(* The files and the findings the fixes are tried on *)

GoPath == <<"d", "/", "m", ".", "g", "o">>
PyPath == <<"d", "/", "p", ".", "p", "y">>

Sources ==
    {<<>>,
     <<"x">>,
     <<"x", LF>>,
     <<"x", LF, LF>>,
     <<"x", ";", LF, "y", "{">>,
     <<"x", " ", LF>>,
     Import \o <<LF, "x", LF>>}

FixPaths == {PathA, GoPath, PyPath, PathB}

FixDisks ==
    {NoDisk}
        \cup {(file_path :> SourceFile(bytes, FALSE)) :
                 file_path \in FixPaths, bytes \in Sources}
        \cup {(file_path :> SourceFile(<<"x", LF>>, TRUE)) : file_path \in FixPaths}

\* findings of rules the analyzer of the file can fix and cannot fix, on
\* lines the file has and has not
FixFindings ==
    {Finding(PathA, "MISSING_SEMICOLON", "", "ERROR", line_number) :
        line_number \in 0..2}
    \cup {Finding(GoPath, rule_id, "", "WARNING", line_number) :
             rule_id \in {"MISSING_PACKAGE", "UNUSED_IMPORT"}, line_number \in 1..2}
    \cup {Finding(PathA, "SECURITY_VULNERABILITY", "", "CRITICAL", 1),
          Finding(PathA, "STYLE", "", "INFO", 1),
          Finding(PyPath, "TRAILING_WHITESPACE", "", "WARNING", 1),
          Finding(PyPath, "UNUSED_IMPORT", "", "WARNING", 1),
          Finding(PyPath, "MISSING_SEMICOLON", "", "ERROR", 1),
          Finding(PathB, "UNUSED_IMPORT", "", "WARNING", 1)}

Suggestions == {<<>>, <<"s">>}

InitFix == ConstructedOn({DefaultConfig}, FixDisks)

FixCall ==
    \E result \in FixFindings, ai_suggested_fix \in Suggestions :
        ApplyFix(result.file_path, result.rule_id, result.line_number,
                 ai_suggested_fix)

NextFix == FixCall

SpecFix == InitFix /\ [][NextFix]_vars

MaxFindings == 2

AutoFindings ==
    {Finding(PathA, "MISSING_SEMICOLON", "", "ERROR", 1),
     Finding(PathA, "SECURITY_VULNERABILITY", "", "CRITICAL", 1),
     Finding(GoPath, "UNUSED_IMPORT", "", "WARNING", 1),
     Finding(PyPath, "TRAILING_WHITESPACE", "", "WARNING", 1),
     Finding(PathT, "STYLE", "", "INFO", 1),
     Finding(PathX, "STYLE", "", "INFO", 1)}

AutoFixCall ==
    \E results \in Seqs(AutoFindings, MaxFindings), ai_available \in BOOLEAN,
       suggestion \in Suggestions :
        ApplyAutoFixes(results, ai_available, suggestion)

NextAutoFix == AutoFixCall

SpecAutoFix == InitFix /\ [][NextAutoFix]_vars

----------------------------------------------------------------------------
(* CppAnalyzer::analyze and analyzeCode.  A regular expression of the      *)
(* analyzer is a sequence of literal parts with ".*" between them, and a   *)
(* flag for std::regex::icase.                                             *)

Regex(parts, icase) == [parts |-> parts, icase |-> icase]

UpperCase ==
    <<"A", "B", "C", "D", "E", "F", "G", "H", "I", "J", "K", "L", "M",
      "N", "O", "P", "Q", "R", "S", "T", "U", "V", "W", "X", "Y", "Z">>

LowerCase ==
    <<"a", "b", "c", "d", "e", "f", "g", "h", "i", "j", "k", "l", "m",
      "n", "o", "p", "q", "r", "s", "t", "u", "v", "w", "x", "y", "z">>

ToLower(c) ==
    IF \E i \in DOMAIN UpperCase : UpperCase[i] = c
    THEN LowerCase[CHOOSE i \in DOMAIN UpperCase : UpperCase[i] = c]
    ELSE c

Folded(line, icase) ==
    IF icase THEN [i \in DOMAIN line |-> ToLower(line[i])] ELSE line

\* the positions right after an occurrence of pattern that starts at or
\* after position from
MatchEnds(line, pattern, from) ==
    {i + Len(pattern) : i \in {j \in from..(Len(line) - Len(pattern) + 1) :
                                  SubSeq(line, j, j + Len(pattern) - 1) = pattern}}

\* std::regex_search(line, pattern)
regex_search(line, pattern) ==
    IF Len(pattern.parts) = 1
    THEN MatchEnds(Folded(line, pattern.icase), pattern.parts[1], 1) # {}
    ELSE \E e \in MatchEnds(Folded(line, pattern.icase), pattern.parts[1], 1) :
            MatchEnds(Folded(line, pattern.icase), pattern.parts[2], e) # {}

\* initializePatterns
error_patterns_ ==
    <<Regex(<<<<"u", "n", "d", "e", "f", "i", "n", "e", "d", " ",
                "r", "e", "f", "e", "r", "e", "n", "c", "e", " ", "t", "o">>>>, TRUE),
      Regex(<<<<"e", "x", "p", "e", "c", "t", "e", "d", " ", "'", ";", "'", " ",
                "a", "f", "t", "e", "r">>>>, FALSE),
      Regex(<<<<"u", "s", "e", " ", "o", "f", " ", "u", "n", "d", "e", "c", "l",
                "a", "r", "e", "d", " ", "i", "d", "e", "n", "t", "i", "f", "i",
                "e", "r">>>>, FALSE),
      Regex(<<<<"n", "o", " ", "m", "a", "t", "c", "h", "i", "n", "g", " ",
                "f", "u", "n", "c", "t", "i", "o", "n", " ", "f", "o", "r", " ",
                "c", "a", "l", "l">>>>, FALSE)>>

warning_patterns_ ==
    <<Regex(<<<<"u", "n", "u", "s", "e", "d", " ",
                "v", "a", "r", "i", "a", "b", "l", "e">>>>, TRUE),
      Regex(<<<<"c", "o", "m", "p", "a", "r", "i", "s", "o", "n", " ",
                "b", "e", "t", "w", "e", "e", "n", " ", "s", "i", "g", "n", "e", "d",
                " ", "a", "n", "d", " ", "u", "n", "s", "i", "g", "n", "e", "d">>>>,
            FALSE),
      Regex(<<<<"d", "e", "p", "r", "e", "c", "a", "t", "e", "d", " ",
                "d", "e", "c", "l", "a", "r", "a", "t", "i", "o", "n">>>>, FALSE)>>

printf_call == <<"p", "r", "i", "n", "t", "f", "(">>
gets_call == <<"g", "e", "t", "s", "(">>
malloc_call == <<"m", "a", "l", "l", "o", "c", "(">>
free_call == <<"f", "r", "e", "e", "(">>

\* the call of test_files/vulnerable.cpp
StrcpyCall ==
    <<"s", "t", "r", "c", "p", "y", "(", "b", "u", "f", "f", "e", "r", ",", " ",
      "i", "n", "p", "u", "t", ")", ";">>

security_patterns_ ==
    <<Regex(<<<<"s", "t", "r", "c", "p", "y", "(">>>>, FALSE),
      Regex(<<<<"s", "t", "r", "c", "a", "t", "(">>>>, FALSE),
      Regex(<<<<"s">> \o printf_call>>, FALSE),
      Regex(<<<<"v", "s">> \o printf_call>>, FALSE),
      Regex(<<gets_call>>, FALSE),
      Regex(<<printf_call>>, FALSE),
      Regex(<<<<"f">> \o printf_call>>, FALSE),
      Regex(<<<<"s", "y", "s", "t", "e", "m", "(">>>>, FALSE),
      Regex(<<<<"e", "x", "e", "c", "(">>>>, FALSE),
      Regex(<<<<"p", "o", "p", "e", "n", "(">>>>, FALSE),
      Regex(<<<<"S", "E", "L", "E", "C", "T">>, <<"F", "R", "O", "M">>>>, FALSE),
      Regex(<<<<"I", "N", "S", "E", "R", "T", " ", "I", "N", "T", "O">>>>, FALSE),
      Regex(<<<<"U", "P", "D", "A", "T", "E">>, <<"S", "E", "T">>>>, FALSE),
      Regex(<<<<"D", "E", "L", "E", "T", "E", " ", "F", "R", "O", "M">>>>, FALSE)>>

\* one finding per pattern of the list that the line matches, in the order
\* of the list
PatternFindings(patterns, line, line_number, file_name, rule_id, message, severity) ==
    [i \in 1..Len(SelectSeq(patterns, LAMBDA p : regex_search(line, p))) |->
        Finding(file_name, rule_id, message, severity, line_number)]

\* line.find(prefix) == 0
StartsWith(line, prefix) ==
    Len(line) >= Len(prefix) /\ SubSeq(line, 1, Len(prefix)) = prefix

\* isspace in the "C" locale
IsSpace == {" ", "TAB", LF, "CR", "VT", "FF"}

NoSemicolonNeeded ==
    {<<"i", "f", " ">>, <<"f", "o", "r", " ">>, <<"w", "h", "i", "l", "e", " ">>,
     <<"s", "w", "i", "t", "c", "h", " ">>,
     <<"n", "a", "m", "e", "s", "p", "a", "c", "e", " ">>,
     <<"c", "l", "a", "s", "s", " ">>, <<"s", "t", "r", "u", "c", "t", " ">>,
     <<"e", "n", "u", "m", " ">>}

\* checkLine, lines 191-202: the heuristic of the missing semicolon
SemicolonMissing(line) ==
    /\ line # <<>>
    /\ \A i \in DOMAIN line : line[i] \notin {"{", "}"}
    /\ line[1] # "#"
    /\ ~StartsWith(line, <<"/", "/">>)
    /\ line[Len(line)] \notin {";", "{"}
    /\ \E i \in DOMAIN line : line[i] \notin IsSpace
    /\ \A prefix \in NoSemicolonNeeded : ~StartsWith(line, prefix)

checkLine(line, line_number, file_name) ==
    (IF SemicolonMissing(line)
     THEN <<Finding(file_name, "MISSING_SEMICOLON", "Possible missing semicolon",
                    "WARNING", line_number)>>
     ELSE <<>>)
    \o PatternFindings(error_patterns_, line, line_number, file_name,
                       "SYNTAX_ERROR", "Potential syntax issue detected", "ERROR")
    \o PatternFindings(warning_patterns_, line, line_number, file_name,
                       "CODE_SMELL", "Code quality issue", "WARNING")

\* the findings of a file-level check carry the default line number, 0
checkIncludeGuard(code, file_name) ==
    IF \/ ~Contains(code, <<"#", "i", "f", "n", "d", "e", "f">>)
       \/ ~Contains(code, <<"#", "d", "e", "f", "i", "n", "e">>)
    THEN <<Finding(file_name, "INCLUDE_GUARD_MISSING",
                   "Header file missing include guard", "WARNING", 0)>>
    ELSE <<>>

checkModernCpp(code, file_name) ==
    (IF Contains(code, malloc_call) \/ Contains(code, free_call)
     THEN <<Finding(file_name, "USE_MODERN_MEMORY",
                    "Consider using new/delete or smart pointers instead of malloc/free",
                    "INFO", 0)>>
     ELSE <<>>)
    \o (IF Contains(code, printf_call)
        THEN <<Finding(file_name, "USE_IOSTREAMS",
                       "Consider using iostreams instead of printf", "INFO", 0)>>
        ELSE <<>>)

checkAdvancedPatterns(code, file_name) ==
    (IF Contains(file_name, <<".", "h">>)
     THEN checkIncludeGuard(code, file_name)
     ELSE <<>>)
    \o checkModernCpp(code, file_name)

\* the findings of the lines one after the other
Concatenated(parts) ==
    LET cat[k \in 0..Len(parts)] ==
            IF k = 0 THEN <<>> ELSE cat[k - 1] \o parts[k]
    IN cat[Len(parts)]

\* a build of checkSecurityPatterns that leaves the line number of the
\* finding at its default
checkSecurityPatterns_noline(code, file_name) ==
    Concatenated([line_number \in DOMAIN ReadLines(code) |->
        PatternFindings(security_patterns_, ReadLines(code)[line_number],
                        0, file_name, "SECURITY_VULNERABILITY",
                        "Potential security vulnerability detected", "CRITICAL")])

checkSecurityPatterns(code, file_name) ==
    Concatenated([line_number \in DOMAIN ReadLines(code) |->
        PatternFindings(security_patterns_, ReadLines(code)[line_number],
                        line_number, file_name, "SECURITY_VULNERABILITY",
                        "Potential security vulnerability detected", "CRITICAL")])

\* CppAnalyzer::analyzeCode: the pass over the lines, then the checks of
\* the whole file, then the security patterns in a second pass
CppAnalyzeCode(code, file_name) ==
    Concatenated([line_number \in DOMAIN ReadLines(code) |->
        checkLine(ReadLines(code)[line_number], line_number, file_name)])
    \o checkAdvancedPatterns(code, file_name)
    \o checkSecurityPatterns(code, file_name)

\* CppAnalyzer::analyze of a file that can be held in memory
CppAnalyze(files, file_path) ==
    IF file_path \notin DOMAIN files
    THEN <<Finding(file_path, "FILE_ERROR", <<"Cannot open file: ", file_path>>,
                   "ERROR", 0)>>
    ELSE CppAnalyzeCode(files[file_path].bytes, file_path)

MaxAnalyses == 2

\* analyzer->analyze(file_path) on the C++ analyzer
AnalyzeCpp(file_path) ==
    /\ calls < MaxAnalyses
    /\ file_path \in DOMAIN disk => ~disk[file_path].too_large
    /\ fix' = [NoFix EXCEPT !.op = "analyze", !.lang = "cpp",
                            !.file_path = file_path,
                            !.results = CppAnalyze(disk, file_path),
                            !.before = disk]
    /\ calls' = calls + 1
    /\ UNCHANGED disk
    /\ FixFrame

PathH == <<"d", "/", "a", ".", "h">>

CppSources ==
    {<<>>,
     <<"x">>,
     <<"x", ";">>,
     gets_call \o <<LF, "x">>,
     gets_call \o <<"x", ")", ";">>,
     <<"x", LF>> \o gets_call \o <<"x", ")", ";", LF, "y">>,
     <<"x", ";", LF>> \o printf_call \o <<")", ";">>,
     <<"f">> \o printf_call \o <<LF, "x">>,
     <<"x", LF>> \o malloc_call \o <<")", ";">>,
     <<"S", "E", "L", "E", "C", "T", " ", "F", "R", "O", "M">>,
     StrcpyCall,
     <<"x", ";", LF>> \o StrcpyCall \o <<LF>>,
     <<"{", LF, " ">> \o StrcpyCall \o <<" ">> \o gets_call \o <<"x", ")", ";", LF, "}">>,
     <<"U", "n", "u", "s", "e", "d", " ", "V", "a", "r", "i", "a", "b", "l", "e">>,
     <<"#", "i", "f", "n", "d", "e", "f", LF, "#", "d", "e", "f", "i", "n", "e", LF,
       "{", LF, "x">>}

AnalyzeDisks ==
    {NoDisk}
        \cup {(file_path :> SourceFile(bytes, FALSE)) :
                 file_path \in {PathA, PathH}, bytes \in CppSources}

InitAnalyze == ConstructedOn({DefaultConfig}, AnalyzeDisks)

AnalyzeCall == \E file_path \in {PathA, PathH} : AnalyzeCpp(file_path)

NextAnalyze == AnalyzeCall

SpecAnalyze == InitAnalyze /\ [][NextAnalyze]_vars

----------------------------------------------------------------------------
(* The error counters under the workers of analyzeDirectoryParallel.       *)
(* ErrorHandler::handleError runs `error_counts_[error_code]++` on a       *)
(* std::unordered_map without a lock: a read of the count and a write of   *)
(* the count plus one, with steps of other workers in between.             *)

\* two files that cannot be read into memory, and one without a finding
FileH == File(PathH, TRUE, TRUE, TRUE, <<>>, FALSE)

ErrorTrees ==
    {<<FileG, FileH>>, <<FileG, FileE, FileH>>, <<FileE, FileG, FileH>>,
     <<FileA, FileG>>, <<FileG, FileH, FileA>>}

StartFailing ==
    \E tree \in ErrorTrees, max_threads \in 1..MaxWorkers :
        AnalyzeDirectoryParallel(tree, TRUE, max_threads)

\* lines 195-196 when the analysis returns
WorkerReturns(w) ==
    /\ workers[w].pc = "inflight"
    /\ ~analyzeFileRun(WorkerFile(w)).threw
    /\ WorkerInflight(w)

\* line 195 when the analysis raises: the exception reaches the handler of
\* executeWithRecovery
WorkerRaises(w) ==
    /\ workers[w].pc = "inflight"
    /\ analyzeFileRun(WorkerFile(w)).threw
    /\ workers' = [workers EXCEPT ![w].pc = "recovery_read",
                                  ![w].caught = analyzeFileRun(WorkerFile(w)).value]
    /\ UNCHANGED scan
    /\ ScanFrame

CountOf(error_counts, code) ==
    IF code \in DOMAIN error_counts THEN error_counts[code] ELSE 0

\* error_counts_[error_code]++, the read; error_code is 0 in both handlers
CountRead(w, at, to) ==
    /\ workers[w].pc = at
    /\ workers' = [workers EXCEPT ![w].seen = CountOf(scan.error_counts_, 0),
                                  ![w].pc = to]
    /\ UNCHANGED scan
    /\ ScanFrame

\* error_counts_[error_code]++, the write
CountWrite(w, at, to) ==
    /\ workers[w].pc = at
    /\ scan' = [scan EXCEPT !.error_counts_ = MapPut(@, 0, workers[w].seen + 1)]
    /\ workers' = [workers EXCEPT ![w].pc = to]
    /\ ScanFrame

\* line 201: has_errors = true
WorkerFlag(w) ==
    /\ workers[w].pc = "flag"
    /\ scan' = [scan EXCEPT !.has_errors = TRUE]
    /\ workers' = [workers EXCEPT ![w].pc = "handler_read"]
    /\ ScanFrame

FailingWorkerStep ==
    \E w \in 1..MaxWorkers :
        \/ WorkerLoop(w)
        \/ WorkerClaim(w)
        \/ WorkerEntry(w)
        \/ WorkerReturns(w)
        \/ WorkerRaises(w)
        \/ CountRead(w, "recovery_read", "recovery_write")
        \/ CountWrite(w, "recovery_write", "flag")
        \/ WorkerFlag(w)
        \/ CountRead(w, "handler_read", "handler_write")
        \/ CountWrite(w, "handler_write", "loop")
        \/ WorkerLock(w)
        \/ WorkerStore(w)

NextErrors ==
    \/ StartFailing
    \/ FailingWorkerStep
    \/ ParallelJoin

SpecErrors == InitScan /\ [][NextErrors]_vars

----------------------------------------------------------------------------
(* Properties *)

\* the step is a call of analyzeCode
AnalyzeStep == calls' = calls + 1 /\ last'.op = "analyzeCode"

\* the fingerprint of the request of that call
StepKey ==
    generateCacheKey(sanitizeInput(last'.code), sanitizeInput(last'.language),
                     sanitizeInput(last'.file_path), config_)

\* the step calls analyzeCode with the valid request of the call just before
RepeatStep ==
    /\ AnalyzeStep
    /\ last.op = "analyzeCode"
    /\ last'.code = last.code
    /\ last'.language = last.language
    /\ last'.file_path = last.file_path
    /\ last.code # <<>>
    /\ last.language # <<>>
    /\ config_.enable_caching

SameAnalysis ==
    /\ last'.ret.from_cache
    /\ last'.ret.analysis = last.ret.analysis
    /\ last'.ret.recommendations = last.ret.recommendations

\* C1 as stated: with caching enabled, the second of two calls in sequence
\* with the same valid request is served from the cache, with the
\* analysis text and the recommendations of the first
C1_RepeatServedFromCache == [][RepeatStep => SameAnalysis]_vars

\* C1 amended: the same, provided the first call returned success = true
\* and its cache entry is not older than the TTL when the second call
\* looks it up
C1_RepeatOfSuccessServedFromCache ==
    [][(/\ RepeatStep
        /\ last.ret.success
        /\ \A k \in DOMAIN analysis_cache_ :
              k = StepKey => now - analysis_cache_[k].timestamp <= CACHE_TTL * 1000)
       => SameAnalysis]_vars

C1_Witness ==
    /\ last.op = "analyzeCode"
    /\ last.repeat
    /\ last.ret.success
    /\ last.ret.from_cache
    /\ last.ret.analysis = "A1"

\* C2: every entry of the cache holds a result with success = true
C2_NoFailedResultCached ==
    \A k \in DOMAIN analysis_cache_ : analysis_cache_[k].result.success

C2_Witness ==
    /\ last.op = "analyzeCode"
    /\ config_.enable_caching
    /\ last.attempts = 3
    /\ ~last.ret.success
    /\ analysis_cache_ # EmptyCache

\* the step inserts the result of a successful dispatch under a key the
\* cache does not hold, while the cache holds cache_max_size entries
InsertAtCapacity ==
    /\ AnalyzeStep
    /\ config_.enable_caching
    /\ last'.attempts > 0
    /\ last'.ret.success
    /\ StepKey \notin DOMAIN analysis_cache_
    /\ Cardinality(DOMAIN analysis_cache_) = config_.cache_max_size

\* exactly one entry leaves the cache, one of least timestamp, and every
\* other entry stays as it was
OldestEvicted ==
    \E victim \in DOMAIN analysis_cache_ :
        /\ DOMAIN analysis_cache_' =
              ((DOMAIN analysis_cache_) \ {victim}) \cup {StepKey}
        /\ \A k \in DOMAIN analysis_cache_ :
              analysis_cache_[victim].timestamp <= analysis_cache_[k].timestamp
        /\ \A k \in (DOMAIN analysis_cache_) \ {victim} :
              analysis_cache_'[k] = analysis_cache_[k]

\* C3: an insert into a cache that holds cacheMaxEntries entries evicts
\* exactly one entry, the one of oldest createdAt, whatever was served as
\* a hit in between
C3_InsertAtCapacityEvictsOldest == [][InsertAtCapacity => OldestEvicted]_vars

\* the same for the capacities of at least 1
EvictsOldestWhenFull ==
    [][(InsertAtCapacity /\ config_.cache_max_size >= 1) => OldestEvicted]_vars

\* the step looks up a key that the cache holds
LookupStep ==
    /\ AnalyzeStep
    /\ last'.code # <<>>
    /\ last'.language # <<>>
    /\ config_.enable_caching
    /\ StepKey \in DOMAIN analysis_cache_

\* C4: a lookup of an entry created more than the TTL ago is a miss, the
\* entry leaves the cache and the service is invoked again; an entry not
\* older than the TTL is a hit and stays
C4_ExpiredEntryMissesAndIsRemoved ==
    [][LookupStep =>
        IF now - analysis_cache_[StepKey].timestamp > CACHE_TTL * 1000
        THEN /\ ~last'.ret.from_cache
             /\ last'.attempts >= 1
             /\ metrics_'.cache_misses = metrics_.cache_misses + 1
             /\ metrics_'.cache_hits = metrics_.cache_hits
             /\ StepKey \in DOMAIN analysis_cache_' =>
                   analysis_cache_'[StepKey].timestamp >= now
        ELSE /\ last'.ret.from_cache
             /\ last'.attempts = 0
             /\ metrics_'.cache_hits = metrics_.cache_hits + 1
             /\ StepKey \in DOMAIN analysis_cache_'
             /\ analysis_cache_'[StepKey].timestamp = analysis_cache_[StepKey].timestamp
             /\ last'.ret = analysis_cache_'[StepKey].result
             /\ last'.ret.analysis = analysis_cache_[StepKey].result.analysis]_vars

C4_Witness ==
    /\ last.op = "analyzeCode"
    /\ last.lookup = "expired"
    /\ last.attempts = 1
    /\ ~last.ret.from_cache
    /\ metrics_.cache_misses = 2

\* the service answered the call with max_retries failures and then success
FailedThenSucceeded ==
    /\ last.op = "analyzeCode"
    /\ Len(last.script) = config_.max_retries + 1
    /\ \A i \in 1..config_.max_retries : last.script[i] \in FailOutcomes
    /\ last.script[config_.max_retries + 1] \in SuccessOutcomes

\* C5: when the external call fails maxRetries times and then succeeds,
\* the dispatch returns success = true after exactly maxRetries delays, the
\* first of 100 ms and each at least double the one before
C5_BackoffDelays ==
    FailedThenSucceeded =>
        /\ ~last.threw
        /\ last.ret.success
        /\ last.attempts = config_.max_retries + 1
        /\ Len(last.delays) = config_.max_retries
        /\ Len(last.delays) >= 1 => last.delays[1] = 100
        /\ \A i \in 2..Len(last.delays) : last.delays[i] >= 2 * last.delays[i - 1]

C5_Witness ==
    /\ FailedThenSucceeded
    /\ config_.max_retries = 2
    /\ last.delays = <<100, 200>>
    /\ last.ret.success

\* C6: every call of analyzeCode adds 1 to total_requests and 1 to exactly
\* one of successful_requests and failed_requests
C6_MetricsOncePerCall ==
    [][AnalyzeStep =>
        /\ metrics_'.total_requests = metrics_.total_requests + 1
        /\ \/ /\ metrics_'.successful_requests = metrics_.successful_requests + 1
              /\ metrics_'.failed_requests = metrics_.failed_requests
           \/ /\ metrics_'.successful_requests = metrics_.successful_requests
              /\ metrics_'.failed_requests = metrics_.failed_requests + 1]_vars

C6_Witness ==
    /\ last.op = "analyzeCode"
    /\ last.attempts = 3
    /\ ~last.ret.success
    /\ metrics_.total_requests = 3
    /\ metrics_.cache_hits = 1
    /\ metrics_.successful_requests = 2
    /\ metrics_.failed_requests = 1

\* C7: a call with an empty code or an empty language fails at once, is
\* counted as one failed request, and touches neither the cache, nor the
\* hit and miss counters, nor the service
C7_EmptyInputRejected ==
    [][(AnalyzeStep /\ (last'.code = <<>> \/ last'.language = <<>>)) =>
        /\ ~last'.threw
        /\ ~last'.ret.success
        /\ last'.ret.error_message # ""
        /\ last'.attempts = 0
        /\ last'.lookup = "none"
        /\ now' = now
        /\ analysis_cache_' = analysis_cache_
        /\ metrics_' = [metrics_ EXCEPT !.total_requests = @ + 1,
                                        !.failed_requests = @ + 1,
                                        !.avg_processing_time =
                                            metrics_'.avg_processing_time]]_vars

C7_Witness ==
    /\ last.op = "analyzeCode"
    /\ last.language = <<>>
    /\ last.code # <<>>
    /\ ~last.ret.success
    /\ analysis_cache_ # EmptyCache
    /\ metrics_.failed_requests = 1

\* C8: no failure of the external call leaves analyzeCode as an exception;
\* when the last invocation of the service failed to launch, exited with a
\* non-zero code, left no or an unparseable response, or raised, the call
\* returns success = false with an error message
C8_FailuresReturnedNotThrown ==
    last.op = "analyzeCode" =>
        /\ ~last.threw
        /\ (last.attempts > 0 /\ last.script[last.attempts] \in CallFailures) =>
              (~last.ret.success /\ last.ret.error_message # "")

C8_Witness ==
    /\ last.op = "analyzeCode"
    /\ last.attempts = 3
    /\ last.script[3].kind = "exception"
    /\ ~last.ret.success
    /\ last.ret.error_message = "Exception in AI service execution"

\* the configuration has an empty executable or service path, a timeout
\* of at most 0 or a negative retry count
Invalid(c) ==
    \/ c.python_executable = <<>>
    \/ c.ai_service_path = <<>>
    \/ c.timeout_seconds <= 0
    \/ c.max_retries < 0

\* C9: updateConfiguration with an invalid configuration returns false and
\* leaves the active configuration as it was
C9_InvalidConfigRejected ==
    [][(calls' = calls + 1 /\ last'.op = "updateConfiguration"
        /\ Invalid(last'.config))
       => (last'.ok = FALSE /\ config_' = config_)]_vars

C9_Witness ==
    /\ last.op = "updateConfiguration"
    /\ last.config.timeout_seconds = 0
    /\ last.config.python_executable # <<>>
    /\ last.config.ai_service_path # <<>>
    /\ last.config.max_retries >= 0
    /\ last.config.enable_caching # config_.enable_caching
    /\ ~last.ok

\* C10: for every call of analyzeCodeAsync the callback is invoked exactly
\* once, with the result of the analysis or with the synthetic failure:
\* never twice, and once when the thread function has returned
C10_CallbackExactlyOnce ==
    \A t \in DOMAIN threads :
        /\ Len(threads[t].callbacks) <= 1
        /\ threads[t].pc = "done" =>
              /\ Len(threads[t].callbacks) = 1
              /\ threads[t].callbacks[1] \in {threads[t].result, AsyncFailure}


----------------------------------------------------------------------------
(* Directory scans and cancellation *)

DirectoryOps == {"analyzeDirectory", "analyzeDirectoryParallel"}

ScanReturned == scan.op \in DirectoryOps /\ scan.pc = "done"

\* the entries a scan hands to analyzeFile
ListedBy(op, entry) ==
    IF op = "analyzeDirectory" THEN entry.regular ELSE Listed(entry)

Reported(op, tree) ==
    {k \in 1..Len(tree) :
        /\ ListedBy(op, tree[k])
        /\ ~analyzeFileRun(tree[k]).threw
        /\ analyzeFileRun(tree[k]).value # <<>>}

EntryAt(tree, path) == CHOOSE k \in 1..Len(tree) : tree[k].path = path

\* the map of a scan that no signal and no exception stops: the non-empty
\* findings of every file the scan hands to analyzeFile
FullScan(op, tree) ==
    [path \in {tree[k].path : k \in Reported(op, tree)} |->
        analyzeFileRun(tree[EntryAt(tree, path)]).value]

SubMap(m, full) ==
    \A path \in DOMAIN m : path \in DOMAIN full /\ m[path] = full[path]

SameMap(m, full) == DOMAIN m = DOMAIN full /\ SubMap(m, full)

\* C11 as stated: a scan during which cancelAnalysis was called returns
\* without throwing, and its map is a strict subset of the map of a full
\* scan of the same tree.
C11_CancelledScanStrictSubset ==
    (ScanReturned /\ scan.cancel_during) =>
        /\ ~scan.threw
        /\ SubMap(scan.all_results, FullScan(scan.op, scan.tree))
        /\ ~SameMap(scan.all_results, FullScan(scan.op, scan.tree))

\* C11 amended: a scan during which cancelAnalysis was called returns
\* without throwing, and its map is a subset of the map of a full scan of the
\* same tree; the subset may be the whole map.
C11_CancelledScanSubset ==
    (ScanReturned /\ scan.cancel_during) =>
        /\ ~scan.threw
        /\ SubMap(scan.all_results, FullScan(scan.op, scan.tree))

\* a cancelled scan returned some entries of the full map, not all of them
C11_Witness ==
    /\ ScanReturned
    /\ scan.cancel_during
    /\ analysis_cancelled_
    /\ DOMAIN scan.all_results # {}
    /\ ~SameMap(scan.all_results, FullScan(scan.op, scan.tree))

\* the list a scan takes its files from
ScanFiles ==
    IF scan.op = "analyzeDirectoryParallel" THEN scan.files_to_analyze ELSE scan.tree

\* the findings of file k of the list are in the returned map
Kept(k) ==
    (~analyzeFileRun(ScanFiles[k]).threw /\ analyzeFileRun(ScanFiles[k]).value # <<>>) =>
        /\ ScanFiles[k].path \in DOMAIN scan.all_results
        /\ scan.all_results[ScanFiles[k].path] = analyzeFileRun(ScanFiles[k]).value

\* C12: cancellation is cooperative.  When a scan returns, no analysis is
\* still running and the findings of every file that was in flight when
\* cancelAnalysis was called are in the map; and no step starts the analysis
\* of a file while the flag is raised.
C12_CooperativeCancellation ==
    /\ [](ScanReturned =>
            /\ InFlight = {}
            /\ \A k \in scan.cancel_inflight : Kept(k))
    /\ [][scan'.started # scan.started => ~analysis_cancelled_]_vars

\* cancelAnalysis was called while a file with findings was in flight, the
\* flag stayed raised, and a later file of the list was never started
C12_Witness ==
    /\ ScanReturned
    /\ analysis_cancelled_
    /\ \E k \in scan.cancel_inflight :
          /\ ScanFiles[k].path \in DOMAIN scan.all_results
          /\ \E j \in (k + 1)..Len(ScanFiles) :
                j \notin scan.started /\ ScanFiles[j].regular

----------------------------------------------------------------------------
(* Failures during a directory scan *)

\* a serial scan that no signal disturbed and in which no analysis threw
QuietSerialScan ==
    /\ scan.op = "analyzeDirectory"
    /\ scan.pc = "done"
    /\ scan.root_ok
    /\ scan.signals = 0
    /\ \A k \in 1..Len(scan.tree) :
          scan.tree[k].regular => ~analyzeFileRun(scan.tree[k]).threw

\* C13: analyzeDirectory does not raise, leaves a file that cannot be read
\* out of the map and reports every other regular file.
C13_UnreadableFileExcluded ==
    QuietSerialScan =>
        /\ ~scan.threw
        /\ \A k \in 1..Len(scan.tree) :
              scan.tree[k].regular =>
                  IF scan.tree[k].readable THEN Kept(k)
                  ELSE scan.tree[k].path \notin DOMAIN scan.all_results

\* no analysis of a regular file of the tree throws
NoAnalysisFailure(tree) ==
    \A k \in 1..Len(tree) : tree[k].regular => ~analyzeFileRun(tree[k]).threw

\* an undisturbed serial scan returns the findings of every regular file
SerialScanIsFullScan ==
    QuietSerialScan => SameMap(scan.all_results, FullScan("analyzeDirectory", scan.tree))

\* C14: with no cancellation and no analysis failure, analyzeDirectoryParallel
\* returns the map the serial analyzeDirectory returns for the same tree, for
\* every number of workers and every interleaving.
C14_ParallelEqualsSerial ==
    (/\ scan.op = "analyzeDirectoryParallel"
     /\ scan.pc = "done"
     /\ scan.root_ok
     /\ scan.signals = 0
     /\ NoAnalysisFailure(scan.tree)) =>
        SameMap(scan.all_results, FullScan("analyzeDirectory", scan.tree))

\* with an analyzer for every regular file the two scans return the same map
ParallelEqualsSerialWhenSupported ==
    (/\ scan.op = "analyzeDirectoryParallel"
     /\ scan.pc = "done"
     /\ scan.root_ok
     /\ scan.signals = 0
     /\ NoAnalysisFailure(scan.tree)
     /\ \A k \in 1..Len(scan.tree) : scan.tree[k].regular => Listed(scan.tree[k])) =>
        SameMap(scan.all_results, FullScan("analyzeDirectory", scan.tree))

----------------------------------------------------------------------------
(* The workers of analyzeDirectoryParallel *)

\* the workers that hold a claimed index
Holding == {w \in 1..MaxWorkers : workers[w].pc \in {"entry", "inflight", "lock", "store"}}

\* C15: every index of the file list is claimed by at most one worker, no two
\* workers work on the same file, and the result map changes only in a step of
\* the worker that holds results_mutex.
C15_EachFileClaimedOnce ==
    /\ [](/\ \A i, j \in DOMAIN scan.claims : i # j => scan.claims[i] # scan.claims[j]
          /\ \A v, w \in Holding : v # w => workers[v].index # workers[w].index
          /\ \A w \in 1..MaxWorkers : workers[w].pc = "store" <=> scan.results_mutex = w)
    /\ [][(scan.op = "analyzeDirectoryParallel" /\ scan'.all_results # scan.all_results) =>
              /\ scan.results_mutex # 0
              /\ workers[scan.results_mutex].pc = "store"
              /\ workers'[scan.results_mutex].pc = "loop"
              /\ DOMAIN scan'.all_results =
                     DOMAIN scan.all_results \cup {WorkerFile(scan.results_mutex).path}]_vars

\* one worker writes its findings while another waits for the mutex with the
\* findings of another file
C15_Witness ==
    \E v, w \in 1..MaxWorkers :
        /\ workers[v].pc = "store"
        /\ workers[w].pc = "lock"
        /\ workers[v].index # workers[w].index

\* C16: in analyzeDirectoryParallel a filesystem or analysis exception raised
\* for one file does not set the shared failure flag; the flag is set only by
\* a step that caught another exception.
C16_RecoverableErrorIsolated ==
    [][(~scan.has_errors /\ scan'.has_errors) =>
          \A w \in 1..MaxWorkers :
              workers'[w] # workers[w] => ~CaughtPerFile(workers'[w].caught)]_vars

\* C17: a scan whose root path cannot be enumerated ends by an exception that
\* reaches the caller.
C17_UnenumerableRootPropagates ==
    (ScanReturned /\ ~scan.root_ok) => scan.threw

----------------------------------------------------------------------------
(* analyzeFile on a path without an analyzer *)

AllExtensions ==
    CppExtensions \o GoExtensions \o JavaExtensions \o JavaScriptExtensions
        \o PythonExtensions

\* the path ends with no extension of a registered analyzer
NoAnalyzerMatches(file_path) == ~ExtensionMatch(file_path, AllExtensions)

\* analyzeFile was called with the cancellation flag down
FileAnalyzed == scan.op = "analyzeFile" /\ scan.pc = "done" /\ scan.started = {1}

\* C18: analyzeFile on a path that no registered analyzer matches returns,
\* without raising, exactly one finding UNSUPPORTED_LANGUAGE of severity
\* ERROR, whatever the length and the extension of the path.
C18_UnsupportedPathReported ==
    (FileAnalyzed /\ NoAnalyzerMatches(scan.tree[1].path)) =>
        /\ ~scan.threw
        /\ scan.ret = UnsupportedLanguage(scan.tree[1].path)
        /\ scan.ret[1].rule_id = "UNSUPPORTED_LANGUAGE"
        /\ scan.ret[1].severity = "ERROR"

\* the statement of C18 holds for every path that is not 3 characters long
UnsupportedPathReportedUnlessThree ==
    (FileAnalyzed /\ NoAnalyzerMatches(scan.tree[1].path)
                  /\ Len(scan.tree[1].path) # 3) =>
        /\ ~scan.threw
        /\ scan.ret = UnsupportedLanguage(scan.tree[1].path)

----------------------------------------------------------------------------
(* Locks of the engine *)

\* the positions at which a thread's subprocess is running
Subprocess == {"ac_service", "hc_probe"}

\* the mutex a thread is waiting for
Wanted(t) ==
    CASE callers[t].pc \in {"ac_lookup_lock", "ac_store_lock"} -> "cache_mutex_"
      [] callers[t].pc \in {"ac_hit_lock", "ac_hits_lock", "ac_miss_lock",
                            "ac_metrics_lock", "pm_lock"} -> "metrics_mutex_"
      [] callers[t].pc \in {"hc_lock", "hc_lock2", "uc_lock", "gc_lock"} -> "state_mutex_"
      [] OTHER -> "none"

\* C19: a thread whose service subprocess or health probe is running holds no
\* mutex of the engine, so no other thread waits for a mutex held by it.
C19_NoLockAcrossSubprocess ==
    \A t \in 1..MaxCallers :
        callers[t].pc \in Subprocess =>
            /\ callers[t].held = {}
            /\ \A u \in 1..MaxCallers : Wanted(u) \notin callers[t].held

\* while the service subprocess of one thread runs, another thread is inside
\* its cache lookup
C19_Witness ==
    \E t, u \in 1..MaxCallers :
        /\ callers[t].pc = "ac_service"
        /\ callers[u].pc = "ac_lookup"
        /\ callers[u].held = {"cache_mutex_"}

\* the positions whose step reads config_, and those whose step writes it
ConfigReads ==
    {"ac_caching", "ac_key", "ac_payload", "ac_store_test", "ac_store",
     "ac_learning", "hc_cmd", "gc_copy"}
ConfigWrites == {"uc_strings", "uc_rest"}

\* C20: every step that reads or writes config_ is taken by a thread that
\* holds state_mutex_, and no step reads config_ while another thread is in
\* the middle of the assignment of updateConfiguration.
C20_ConfigurationUnderItsLock ==
    [][\A t \in 1..MaxCallers :
          (callers[t].pc \in ConfigReads \cup ConfigWrites /\ callers'[t] # callers[t]) =>
              /\ "state_mutex_" \in callers[t].held
              /\ \A u \in 1..MaxCallers \ {t} : callers[u].pc # "uc_rest"]_vars

\* a thread of analyzeCode has made its cache key from the model type of the
\* new configuration while the thread of updateConfiguration is still in the
\* middle of the assignment
TornConfigurationRead ==
    \E t, u \in 1..MaxCallers :
        /\ config_ \notin CallerConfigs
        /\ callers[u].pc = "uc_rest"
        /\ callers[t].op = "analyzeCode"
        /\ callers[t].key = CallerKey(CallerConfigB)

----------------------------------------------------------------------------
(* Metrics *)

\* thread t takes the step that reads metrics_ in getPerformanceMetrics
MetricsRead(t) == callers[t].pc = "pm_read" /\ callers'[t] # callers[t]

\* C21: a read of the metrics sees whole requests only: never a cache hit
\* counted in total_requests and not yet in cache_hits, never more cache hits
\* and misses than requests.
C21_MetricsReadSeesWholeRequests ==
    [][\A t \in 1..MaxCallers :
          MetricsRead(t) =>
              /\ metrics_.cache_hits + metrics_.cache_misses <= metrics_.total_requests
              /\ \A u \in 1..MaxCallers : callers[u].pc # "ac_hits_lock"]_vars

\* the step of one clearCache call
ClearCacheStep == calls' = calls + 1 /\ last'.op = "clearCache"

\* the event counters and the summed processing time do not go down
CountersGrow ==
    /\ metrics_'.total_requests >= metrics_.total_requests
    /\ metrics_'.successful_requests >= metrics_.successful_requests
    /\ metrics_'.failed_requests >= metrics_.failed_requests
    /\ metrics_'.cache_hits >= metrics_.cache_hits
    /\ metrics_'.cache_misses >= metrics_.cache_misses
    /\ metrics_'.total_processing_time >= metrics_.total_processing_time

RequestsAddUp ==
    metrics_.successful_requests + metrics_.failed_requests = metrics_.total_requests

\* C22: successful_requests + failed_requests = total_requests in every
\* state, and no metric of the engine, the average processing time included,
\* ever decreases under analyzeCode, clearCache and updateConfiguration;
\* clearCache leaves the metrics as they are.
C22_NoMetricDecreases ==
    /\ []RequestsAddUp
    /\ [][/\ CountersGrow
          /\ metrics_'.avg_processing_time >= metrics_.avg_processing_time
          /\ ClearCacheStep => metrics_' = metrics_]_vars

\* C22 (amended): the same for the five event counters and the summed
\* processing time; the average processing time is left out, it goes down
\* when a request is faster than the average so far.
C22_CountersNeverDecrease ==
    /\ []RequestsAddUp
    /\ [][/\ CountersGrow
          /\ ClearCacheStep => metrics_' = metrics_]_vars

\* the cache is cleared after a successful and a failed request
C22_Witness ==
    /\ last.op = "clearCache"
    /\ metrics_.total_requests = 2
    /\ metrics_.successful_requests = 1
    /\ metrics_.failed_requests = 1
    /\ metrics_.cache_misses = 2

----------------------------------------------------------------------------
(* Results of a failed request *)

\* C23: every result with success = FALSE that analyzeCode returns has no
\* recommendations, whatever document the service answered with.
C23_FailedResultHasNoRecommendations ==
    (last.op = "analyzeCode" /\ ~last.threw /\ ~last.ret.success)
        => last.ret.recommendations = <<>>

----------------------------------------------------------------------------
(* Fingerprints *)

\* the step is the second call of analyzeCode, with the code and the
\* language of the first, whose result is in the cache
SameCodeStep ==
    /\ AnalyzeStep
    /\ calls = 1
    /\ last.op = "analyzeCode"
    /\ last.ret.success
    /\ last'.code = last.code
    /\ last'.language = last.language
    /\ config_.enable_caching

\* C24: the key is a function of (code, language, file_path, model_type),
\* and two requests that differ only in their file path have different
\* keys: the second of two such calls does not find the entry of the first,
\* the second of two equal calls does.
C24_KeyDistinguishesFilePath ==
    [][SameCodeStep =>
          (last'.lookup = "hit" <=> last'.file_path = last.file_path)]_vars

\* C24 (amended): the same for the file paths as analyzeCode sanitizes them
C24_KeyDistinguishesSanitizedPath ==
    [][SameCodeStep =>
          (last'.lookup = "hit"
              <=> sanitizeInput(last'.file_path) = sanitizeInput(last.file_path))]_vars

\* the second call, with another file path, has missed and stored its own
\* entry beside that of the first
C24_Witness ==
    /\ calls = 2
    /\ last.op = "analyzeCode"
    /\ last.file_path = <<"q">>
    /\ last.lookup = "absent"
    /\ DOMAIN analysis_cache_ =
           {generateCacheKey(<<"a">>, <<"c">>, <<>>, config_),
            generateCacheKey(<<"a">>, <<"c">>, <<"q">>, config_)}

----------------------------------------------------------------------------
(* The health probe *)

\* thread t takes the step that starts the probe subprocess (line 526)
ProbeStarts(t) == callers[t].pc = "hc_probe" /\ callers'[t] # callers[t]

\* C25: the probe subprocess is started only when HEALTH_CHECK_INTERVAL has
\* passed since the probe recorded last; a query inside the interval
\* returns the recorded flag and starts no subprocess.
C25_ProbeOnlyAfterInterval ==
    [][\A t \in 1..MaxCallers : ProbeStarts(t) => ~health.fresh]_vars

----------------------------------------------------------------------------
(* Temporary documents *)

\* C26: when analyzeCode has returned, none of the temporary request and
\* response documents of its service runs exists, whatever the runs ended
\* with.
C26_NoTemporaryFileRemains ==
    last.op = "analyzeCode" => last.files = {}

----------------------------------------------------------------------------
(* Auto-fixes *)

\* C27: applyAutoFixes handles every finding it is given; a finding that
\* cannot be fixed does not keep the findings after it from being handled.
C27_EveryFindingProcessed ==
    fix.op = "applyAutoFixes" => fix.processed = 1..Len(fix.results)

\* C28: when applyFix has returned false, for whatever finding, suggestion and
\* file, every source file holds the bytes it held before the call.
C28_FailedFixLeavesFile ==
    (fix.op = "applyFix" /\ ~fix.ret) => disk = fix.before

\* the Go analyzer has found nothing to change on line 1 of a file that a
\* write-back would have shortened
C28_Witness ==
    /\ fix.op = "applyFix"
    /\ ~fix.ret
    /\ fix.lang = "go"
    /\ fix.rule_id = "UNUSED_IMPORT"
    /\ fix.line_number = 1
    /\ fix.ai_suggested_fix = <<>>
    /\ GoPath \in DOMAIN disk
    /\ disk[GoPath] = SourceFile(<<"x", LF>>, FALSE)

\* the step applies the fix that the call before it applied with success
RepeatedFix ==
    /\ calls' = calls + 1
    /\ fix.op = "applyFix"
    /\ fix.ret
    /\ fix'.op = "applyFix"
    /\ fix'.file_path = fix.file_path
    /\ fix'.rule_id = fix.rule_id
    /\ fix'.line_number = fix.line_number
    /\ fix'.ai_suggested_fix = fix.ai_suggested_fix

\* C29: applying the fix of a finding a second time, to the file the first
\* application has fixed, leaves the bytes of the file as the first
\* application left them.
C29_SecondFixChangesNothing ==
    [][RepeatedFix => disk' = disk]_vars

----------------------------------------------------------------------------
(* The order of the findings *)

\* C30: within the sequence of findings that an analyzer returns for one
\* file, no finding is followed by a finding with a smaller line number.
C30_FindingsInLineOrder ==
    fix.op = "analyze"
        => \A i, j \in DOMAIN fix.results :
              i < j => fix.results[i].line_number <= fix.results[j].line_number

----------------------------------------------------------------------------
(* The example of the unsafe copy *)

\* C31: analysing a C-family file whose line n contains the call
\* strcpy(buffer, input); yields a finding with rule SECURITY_VULNERABILITY,
\* severity CRITICAL and line number n, for the path of that file.
C31_StrcpyIsReported ==
    (fix.op = "analyze" /\ fix.file_path \in DOMAIN disk)
        => \A n \in DOMAIN ReadLines(disk[fix.file_path].bytes) :
              Contains(ReadLines(disk[fix.file_path].bytes)[n], StrcpyCall)
                  => \E i \in DOMAIN fix.results :
                        /\ fix.results[i].rule_id = "SECURITY_VULNERABILITY"
                        /\ fix.results[i].severity = "CRITICAL"
                        /\ fix.results[i].line_number = n
                        /\ fix.results[i].file_path = fix.file_path

C31_Witness ==
    /\ fix.op = "analyze"
    /\ fix.file_path = PathA
    /\ PathA \in DOMAIN disk
    /\ disk[PathA].bytes = <<"x", ";", LF>> \o StrcpyCall \o <<LF>>
    /\ Len(fix.results) = 1
    /\ fix.results[1].line_number = 2

----------------------------------------------------------------------------
(* The attempts of one request *)

\* the answer of the k-th attempt of the latest request
AttemptResult(k) == executePythonService(last.script[k]).value

\* C32: one request invokes the external service at most max_retries + 1
\* times, never again after an attempt succeeded, sleeps only between two
\* attempts, and when every attempt failed returns the failed result of the
\* last attempt.
C32_RetryDiscipline ==
    last.op = "analyzeCode"
        => /\ last.attempts <= config_.max_retries + 1
           /\ \A k \in 1..(last.attempts - 1) : ~AttemptResult(k).success
           /\ Len(last.delays) = (IF last.attempts = 0 THEN 0 ELSE last.attempts - 1)
           /\ (last.attempts > 0 /\ ~AttemptResult(last.attempts).success)
                 => /\ last.attempts = config_.max_retries + 1
                    /\ ~last.threw
                    /\ last.ret = [AttemptResult(last.attempts) EXCEPT
                                      !.processing_time = last.ret.processing_time]

C32_Witness ==
    /\ last.op = "analyzeCode"
    /\ config_.max_retries = 2
    /\ last.attempts = 3
    /\ Len(last.delays) = 2
    /\ ~last.ret.success
    /\ last.ret.error_message = "AI service did not produce output"

----------------------------------------------------------------------------
(* The failure flag of the parallel scan *)

\* a worker claims an entry of the file list or starts the analysis of one
ClaimsOrStarts ==
    \/ Len(scan'.claims) > Len(scan.claims)
    \/ scan'.started # scan.started

\* C33: once a worker of analyzeDirectoryParallel has set the shared failure
\* flag, no worker claims a new entry of the file list or starts analysing
\* a file.
C33_NoClaimAfterFailure ==
    [][(scan.op = "analyzeDirectoryParallel" /\ scan.pc = "waiting"
            /\ scan.has_errors)
          => ~ClaimsOrStarts]_vars

----------------------------------------------------------------------------
(* The size of the cache *)

\* C34: in every reachable state the number of cache entries is at most the
\* cache_max_size of the active configuration, for every accepted capacity
\* and after any sequence of requests, clearCache and updateConfiguration.
C34_CacheWithinCapacity ==
    Cardinality(DOMAIN analysis_cache_) <= config_.cache_max_size

----------------------------------------------------------------------------
(* The end of the parallel scan *)

\* a parallel scan with at least one worker in which nothing is raised: the
\* root can be enumerated and no lookup of an analyzer or analysis throws
QuietParallelScan ==
    /\ scan.op = "analyzeDirectoryParallel"
    /\ scan.max_threads >= 1
    /\ scan.root_ok
    /\ ~analysis_cancelled_
    /\ NoAnalysisFailure(scan.tree)

\* the entries of the tree with a matching analyzer and at least one finding
WithFindings(tree) ==
    {k \in 1..Len(tree) :
        Listed(tree[k]) /\ analyzeFileRun(tree[k]).value # <<>>}

ParallelMap(tree) ==
    [path \in {tree[k].path : k \in WithFindings(tree)} |->
        analyzeFileRun(tree[EntryAt(tree, path)]).value]

\* C35: with at least one worker, no cancellation and no analysis error,
\* analyzeDirectoryParallel eventually returns, after every worker has
\* finished, and its map has an entry for exactly the files of the tree that
\* have a matching analyzer and at least one finding.
C35_ParallelScanCompletes ==
    /\ (QuietParallelScan /\ scan.pc = "waiting") ~> (scan.pc = "done")
    /\ []((QuietParallelScan /\ scan.pc = "done")
            => /\ \A w \in 1..MaxWorkers : workers[w].pc \in {"unused", "finished"}
               /\ SameMap(scan.all_results, ParallelMap(scan.tree)))

C35_Witness ==
    /\ QuietParallelScan
    /\ scan.pc = "done"
    /\ scan.max_threads = 2
    /\ scan.tree = <<FileA, FileE, FileB>>
    /\ DOMAIN scan.all_results = {PathA, PathB}
    /\ workers[1].pc = "finished"
    /\ workers[2].pc = "finished"

----------------------------------------------------------------------------
(* The temporary documents of concurrent runs *)

\* the threads that have chosen the name of their request document, and of
\* their response document, and are still in the run
InputNamed  == {t \in 1..MaxCallers : runs.th[t].pc \in {"name_output", "write", "process", "read"}}
OutputNamed == {t \in 1..MaxCallers : runs.th[t].pc \in {"write", "process", "read"}}

\* C36: two runs of the external service at the same time never use the same
\* temporary request document or the same temporary response document, and
\* each run reads back only the response written for its own request.
C36_OwnTemporaryFiles ==
    /\ \A t, u \in InputNamed :
          t # u => runs.th[t].temp_input # runs.th[u].temp_input
    /\ \A t, u \in OutputNamed :
          t # u => runs.th[t].temp_output # runs.th[u].temp_output
    /\ \A t \in 1..MaxCallers : runs.th[t].read \in {0, t}

----------------------------------------------------------------------------
(* What the external service is given *)

\* C37: the external service is never invoked with an empty code or an empty
\* language, also when the input becomes empty through sanitization.
C37_ServiceNeverGetsEmptyInput ==
    (last.op = "analyzeCode" /\ last.attempts > 0)
        => /\ sanitizeInput(last.code) # <<>>
           /\ sanitizeInput(last.language) # <<>>

----------------------------------------------------------------------------
(* The separator of the fingerprint *)

\* the request of a call as analyzeCode sanitizes it
SanitizedRequest(call) ==
    <<sanitizeInput(call.code), sanitizeInput(call.language),
      sanitizeInput(call.file_path)>>

\* the second call finds the entry that the first call stored
SecondCallHits ==
    /\ AnalyzeStep
    /\ calls = 1
    /\ last.op = "analyzeCode"
    /\ last'.lookup = "hit"

\* C38: two requests whose (code, language, file_path, model_type) differ in
\* any field never yield the same pre-hash string and never share a cache
\* entry, also when a field contains the separator.
C38_KeyInjective ==
    [][SecondCallHits => SanitizedRequest(last') = SanitizedRequest(last)]_vars

----------------------------------------------------------------------------
(* The recorded availability *)

\* thread t returns service_available_ from line 516 without a probe
ReturnsRecorded(t) ==
    /\ callers[t].pc = "hc_check"
    /\ callers'[t].pc = "idle"

\* C39: every value the availability check returns is the outcome of a probe
\* that was executed; the initial value of the flag is never reported.
C39_AvailabilityFromProbe ==
    [][\A t \in 1..MaxCallers : ReturnsRecorded(t) => health.probed]_vars

----------------------------------------------------------------------------
(* The error counters *)

\* the workers between the read and the write of a counter
Updating ==
    {w \in 1..MaxWorkers : workers[w].pc \in {"recovery_write", "handler_write"}}

\* the files whose analysis was started and raised
FailedFiles ==
    {k \in scan.started : analyzeFileRun(scan.files_to_analyze[k]).threw}

\* C40: the error counters of the ErrorHandler are never updated by two
\* workers at the same time, and when two files fail concurrently both
\* failures are recorded: each failure is counted once by executeWithRecovery
\* and once by the handler of the worker.
C40_ErrorCountsExclusive ==
    /\ Cardinality(Updating) <= 1
    /\ (scan.op = "analyzeDirectoryParallel" /\ scan.pc = "done")
          => CountOf(scan.error_counts_, 0) = 2 * Cardinality(FailedFiles)

====
